---- MODULE Spec2Model ----
(***************************************************************************)
(* npvm: the package-manager adapters (npm, yarn, pnpm, bun) and the       *)
(* security helpers they call.  One adapter call is in flight per          *)
(* behaviour; its environment (the child process, the `which` lookup, the  *)
(* caller's progress sink) answers nondeterministically.                   *)
(*                                                                         *)
(* Strings that the code inspects character by character (package names,   *)
(* URLs, version output) are sequences of one-character strings.           *)
(* OperationProgress.id and .startedAt are written once at construction    *)
(* and never again; they are left out of the record.  completedAt is kept  *)
(* as "set or not".                                                        *)
(***************************************************************************)
EXTENDS Integers, Sequences, FiniteSets, TLC

----------------------------------------------------------------------------
(* Bounds of the model *)

\* stdout/stderr chunks one child process may emit
MaxChunks == 10
\* largest `total` an audit payload of the samples reports
MaxVulns == 2

(* Program constants *)

\* validatePackageName: name.length > 214
MaxPackageNameLength == 214
\* validatePackageNames: packages.length > 100
MaxPackages == 100
\* install stdout handler: Math.min(progress + step, 90)
ProgressCap == 90
ProgressStepDefault == 10
ProgressStepBun == 20
ProgressDone == 100
\* auditFix milestones
ProgressFixRunning == 20
ProgressFixRescan == 70

Adapters == {"npm", "yarn", "pnpm", "bun"}
MutatingOps == {"install", "uninstall", "update"}
ReadOps == {"getInstalledPackages", "getGlobalPackages", "getDependencyTree", "audit"}

----------------------------------------------------------------------------
(* utils/security: character classes of the three regular expressions *)

Lower == {"a","b","c","d","e","f","g","h","i","j","k","l","m",
          "n","o","p","q","r","s","t","u","v","w","x","y","z"}
Upper == {"A","B","C","D","E","F","G","H","I","J","K","L","M",
          "N","O","P","Q","R","S","T","U","V","W","X","Y","Z"}
Digit == {"0","1","2","3","4","5","6","7","8","9"}

\* /[;&|`$(){}[\]<>!#*?\\'"]/
DANGEROUS_CHARS == {";", "&", "|", "`", "$", "(", ")", "{", "}", "[", "]",
                    "<", ">", "!", "#", "*", "?", "\\", "'", "\""}

\* [a-z0-9-~] under the i flag
NameFirst == Lower \cup Upper \cup Digit \cup {"-", "~"}
\* [a-z0-9-._~] under the i flag
NameRest == NameFirst \cup {".", "_"}
\* [a-z0-9^~>=<.*-] under the i flag
VersionChar == Lower \cup Upper \cup Digit \cup {"^", "~", ">", "=", "<", ".", "*", "-"}

HasDangerousChar(s) == \E i \in 1..Len(s) : s[i] \in DANGEROUS_CHARS

AllIn(s, cls) == \A i \in 1..Len(s) : s[i] \in cls

\* position of the first occurrence of c in s, 0 when there is none
IndexOf(s, c) ==
    IF \E i \in 1..Len(s) : s[i] = c
    THEN CHOOSE i \in 1..Len(s) : s[i] = c /\ \A j \in 1..(i - 1) : s[j] # c
    ELSE 0

\* [a-z0-9-~][a-z0-9-._~]*(@[a-z0-9^~>=<.*-]+)?$  on the text after the scope
MatchesNameAndVersion(r) ==
    LET at == IndexOf(r, "@")
        name == IF at = 0 THEN r ELSE SubSeq(r, 1, at - 1)
        ver == IF at = 0 THEN << >> ELSE SubSeq(r, at + 1, Len(r))
    IN /\ Len(name) >= 1
       /\ name[1] \in NameFirst
       /\ AllIn(name, NameRest)
       /\ at # 0 => (Len(ver) >= 1 /\ AllIn(ver, VersionChar))

\* VALID_PACKAGE_NAME.test(name): ^(@A B*\/)?A B*(@V+)?$
\* "@" and "/" are in none of the classes, so the scope, when the name starts
\* with "@", ends at the first "/", and the version starts at the first "@"
\* after it.
VALID_PACKAGE_NAME(s) ==
    IF Len(s) >= 1 /\ s[1] = "@"
    THEN LET slash == IndexOf(s, "/")
             scope == SubSeq(s, 2, slash - 1)
         IN /\ slash # 0
            /\ Len(scope) >= 1
            /\ scope[1] \in NameFirst
            /\ AllIn(scope, NameRest)
            /\ MatchesNameAndVersion(SubSeq(s, slash + 1, Len(s)))
    ELSE MatchesNameAndVersion(s)

\* validatePackageName(name): TRUE when it returns, FALSE when it throws
validatePackageName(name) ==
    /\ Len(name) # 0
    /\ Len(name) <= MaxPackageNameLength
    /\ ~HasDangerousChar(name)
    /\ VALID_PACKAGE_NAME(name)

\* validatePackageNames(packages): TRUE when it returns, FALSE when it throws
validatePackageNames(packages) ==
    /\ Len(packages) # 0
    /\ Len(packages) <= MaxPackages
    /\ \A i \in 1..Len(packages) : validatePackageName(packages[i])

\* new URL(url).protocol without its colon: the text before the first ":",
\* when it is a scheme (a letter, then letters, digits, "+", "-", ".") and,
\* for the special schemes http and https, a host follows the slashes;
\* << >> when the constructor throws.
UrlProtocol(url) ==
    LET colon == IndexOf(url, ":")
        scheme == SubSeq(url, 1, colon - 1)
        rest == SubSeq(url, colon + 1, Len(url))
        hostAt == IF \E i \in 1..Len(rest) : rest[i] # "/"
                  THEN CHOOSE i \in 1..Len(rest) :
                           rest[i] # "/" /\ \A j \in 1..(i - 1) : rest[j] = "/"
                  ELSE 0
        special == scheme \in {<<"h","t","t","p">>, <<"h","t","t","p","s">>}
    IN IF /\ colon > 1
          /\ scheme[1] \in Lower \cup Upper
          /\ AllIn(scheme, Lower \cup Upper \cup Digit \cup {"+", "-", "."})
          /\ special => hostAt # 0
       THEN scheme
       ELSE << >>

\* validateUrl(url): TRUE when it returns, FALSE when it throws
validateUrl(url) ==
    /\ Len(url) # 0
    /\ ~HasDangerousChar(url)
    /\ UrlProtocol(url) \in {<<"h","t","t","p">>, <<"h","t","t","p","s">>}

----------------------------------------------------------------------------
(* Inputs the caller may pass *)

NameLodash == <<"l","o">>
NameScoped == <<"@","s","/","p">>
NameVersioned == <<"p","@","^","1">>
NameInjection == <<"p",";","r">>
NameDotFirst == <<".","x">>
NameTooLong == [i \in 1..(MaxPackageNameLength + 1) |-> "a"]

PackageLists ==
    { << >>,
      <<NameLodash>>,
      <<NameScoped, NameVersioned>>,
      <<NameLodash, NameInjection>>,
      <<NameDotFirst>>,
      <<NameTooLong>>,
      << << >> >>,
      [i \in 1..(MaxPackages + 1) |-> NameLodash] }

UrlHttps == <<"h","t","t","p","s",":","/","/","r",".","i","o">>
UrlFtp == <<"f","t","p",":","/","/","r",".","i","o">>
UrlInjection == <<"h","t","t","p",":","/","/","r",";","x">>
UrlNoScheme == <<"r",".","i","o">>
UrlNoHost == <<"h","t","t","p",":","/","/">>

\* options.registry; the empty text (falsy) stands for "not supplied"
Registries == {<< >>, UrlHttps, UrlFtp, UrlInjection, UrlNoScheme, UrlNoHost}

\* InstallOptions / UninstallOptions (base.ts): the fields the adapters read;
\* workspace and filter are left at their default (not supplied)
OptionSets ==
    { [dev |-> d, global |-> g, registry |-> r] :
        d \in BOOLEAN, g \in {FALSE}, r \in Registries }
    \cup { [dev |-> FALSE, global |-> TRUE, registry |-> << >>] }

\* the caller's onProgress: not supplied, a function that returns, or a
\* function that may throw on any call
Sinks == {"absent", "returns", "mayThrow"}

----------------------------------------------------------------------------
(* State of the one call in flight *)

VARIABLES
    adapter,      \* the adapter the call is made on
    op,           \* the operation called, "none" before the call
    pc,           \* where the call stands
    packages,     \* its `packages` argument
    options,      \* its `options` argument
    onProgress,   \* its `onProgress` argument, one of Sinks
    progress,     \* << >>, or <<r>> with r the OperationProgress of the call
    delivered,    \* << >>, or <<r>> with r the record as the sink last saw it
    nDelivered,   \* number of calls of the sink
    child,        \* the child process the call awaits
    nSpawned,     \* number of child processes spawned by the call
    nChunks,      \* number of stdout/stderr chunks the child has written
    outcome,      \* "pending", "resolved", "rejected" or "crashed"
    ret,          \* the value the call resolved with
    env,          \* answers of the environment the call has consumed
    locals,       \* local variables of auditFix
    config,       \* the registry URL in the package manager's configuration
    input,        \* the argument of a registry or remote-service call
    requests      \* the HTTP requests the call has issued, in order

vars == <<adapter, op, pc, packages, options, onProgress, progress, delivered,
          nDelivered, child, nSpawned, nChunks, outcome, ret, env, locals,
          config, input, requests>>

NoChild == [state |-> "none", cmd |-> "", args |-> << >>, streamed |-> FALSE,
            timeout |-> 0, hangs |-> FALSE]
NoEnv == [which |-> "", probe |-> "", stdout |-> << >>,
          run |-> [spawn |-> "", exitCode |-> 0, stdout |-> [form |-> "empty"]]]
NoLocals == [beforeCount |-> 0, rescanned |-> FALSE, afterCount |-> 0, fixed |-> 0,
             logs |-> << >>]

\* the registry a package manager uses when none is configured
DefaultRegistry ==
    <<"h","t","t","p","s",":","/","/","r","e","g","i","s","t","r","y",".","n","p","m","j","s",".","o","r","g","/">>

Init ==
    /\ adapter = "npm"
    /\ op = "none"
    /\ pc = "idle"
    /\ packages = << >>
    /\ options = [dev |-> FALSE, global |-> FALSE, registry |-> << >>]
    /\ onProgress = "absent"
    /\ progress = << >>
    /\ delivered = << >>
    /\ nDelivered = 0
    /\ child = NoChild
    /\ nSpawned = 0
    /\ nChunks = 0
    /\ outcome = "pending"
    /\ ret = << >>
    /\ env = NoEnv
    /\ locals = NoLocals
    /\ config = DefaultRegistry
    /\ input = << >>
    /\ requests = << >>

----------------------------------------------------------------------------
(* The progress record and its sink *)

\* packages.join(', ')
RECURSIVE Join(_)
Join(names) ==
    IF Len(names) = 0 THEN << >>
    ELSE IF Len(names) = 1 THEN names[1]
    ELSE names[1] \o <<",", " ">> \o Join(Tail(names))

\* the `message` the record is created with
StartMessage(a, o) ==
    CASE o = "install" /\ a = "npm" -> "Installing..."
      [] o = "install" /\ a = "pnpm" -> "Installing with pnpm..."
      [] o = "install" /\ a = "yarn" -> "Installing with Yarn..."
      [] o = "install" /\ a = "bun" -> "Installing with Bun..."
      [] o = "uninstall" /\ a = "npm" -> "Uninstalling..."
      [] o = "uninstall" /\ a = "pnpm" -> "Uninstalling with pnpm..."
      [] o = "uninstall" /\ a = "yarn" -> "Uninstalling with Yarn..."
      [] o = "uninstall" /\ a = "bun" -> "Uninstalling with Bun..."
      [] o = "update" /\ a = "npm" -> "Updating..."
      [] o = "update" /\ a = "pnpm" -> "Updating with pnpm..."
      [] o = "update" /\ a = "yarn" -> "Updating with Yarn..."
      [] o = "update" /\ a = "bun" -> "Updating with Bun..."
      [] OTHER -> "Fixing vulnerabilities..."

\* the `message` of a completed install, uninstall or update
DoneMessage(o) ==
    CASE o = "install" -> "Installation complete"
      [] o = "uninstall" -> "Uninstallation complete"
      [] OTHER -> "Update complete"

\* const progress: OperationProgress = { ..., status: 'running', progress: 0, logs: [] }
NewProgress(a, o, pkgs) ==
    [type |-> IF o = "auditFix" THEN "audit" ELSE o,
     status |-> "running",
     package |-> IF o = "auditFix" THEN << >>
                 ELSE IF o = "update" /\ Len(Join(pkgs)) = 0 THEN <<"a","l","l">>
                 ELSE Join(pkgs),
     progress |-> 0,
     message |-> StartMessage(a, o),
     logs |-> << >>,
     completedAt |-> FALSE]

\* whether one call of the sink throws
SinkThrows(sink) == IF sink = "mayThrow" THEN BOOLEAN ELSE {FALSE}

\* onProgress?.(progress): the sink, when there is one, sees the record as it is
CallSink(sink, rec) ==
    /\ delivered' = IF sink = "absent" THEN delivered ELSE <<rec>>
    /\ nDelivered' = IF sink = "absent" THEN nDelivered ELSE nDelivered + 1

----------------------------------------------------------------------------
(* install / uninstall / update *)

Flag(cond, words) == IF cond THEN words ELSE << >>

\* the argument vector handed to execa
InstallArgs(a, pkgs, opts) ==
    LET hasRegistry == Len(opts.registry) # 0
    IN CASE a = "npm" ->
              << <<"install">> >> \o pkgs
              \o Flag(opts.dev, << <<"--save-dev">> >>)
              \o Flag(opts.global, << <<"-g">> >>)
              \o Flag(hasRegistry, << <<"--registry">>, opts.registry >>)
         [] a = "pnpm" ->
              << <<"add">> >> \o pkgs
              \o Flag(opts.dev, << <<"--save-dev">> >>)
              \o Flag(opts.global, << <<"-g">> >>)
              \o Flag(hasRegistry, << <<"--registry">>, opts.registry >>)
         [] a = "yarn" ->
              (IF opts.global THEN << <<"global">>, <<"add">> >> ELSE << <<"add">> >>)
              \o pkgs
              \o Flag(opts.dev, << <<"--dev">> >>)
              \o Flag(hasRegistry, << <<"--registry">>, opts.registry >>)
         [] OTHER ->
              << <<"add">> >> \o pkgs
              \o Flag(opts.dev, << <<"--dev">> >>)
              \o Flag(opts.global, << <<"-g">> >>)

UninstallArgs(a, pkgs, opts) ==
    CASE a = "npm" -> << <<"uninstall">> >> \o pkgs \o Flag(opts.global, << <<"-g">> >>)
      [] a = "yarn" ->
           (IF opts.global THEN << <<"global">>, <<"remove">> >> ELSE << <<"remove">> >>)
           \o pkgs
      [] OTHER -> << <<"remove">> >> \o pkgs \o Flag(opts.global, << <<"-g">> >>)

UpdateArgs(a, pkgs) ==
    << <<IF a = "yarn" THEN "upgrade" ELSE "update">> >> \o pkgs

Args(a, o, pkgs, opts) ==
    CASE o = "install" -> InstallArgs(a, pkgs, opts)
      [] o = "uninstall" -> UninstallArgs(a, pkgs, opts)
      [] OTHER -> UpdateArgs(a, pkgs)

\* Validated without the check of options.registry
ValidatedNamesOnly(o, pkgs, opts) ==
    CASE o = "update" -> Len(pkgs) > 0 => validatePackageNames(pkgs)
      [] OTHER -> validatePackageNames(pkgs)

\* the checks at the head of install / uninstall / update: TRUE when none throws
Validated(o, pkgs, opts) ==
    CASE o = "install" ->
           /\ validatePackageNames(pkgs)
           /\ Len(opts.registry) # 0 => validateUrl(opts.registry)
      [] o = "uninstall" -> validatePackageNames(pkgs)
      [] OTHER -> Len(pkgs) > 0 => validatePackageNames(pkgs)

\* whether the operation attaches 'data' listeners to the child's streams
Streams(o) == o = "install"

\* Math.min(progress.progress + step, 90)
ProgressStep(a) == IF a = "bun" THEN ProgressStepBun ELSE ProgressStepDefault

Min(x, y) == IF x <= y THEN x ELSE y
Max(x, y) == IF x >= y THEN x ELSE y

\* OnStdoutRecord without Math.min(..., 90)
OnStdoutRecordUncapped(a, rec, chunk) ==
    [rec EXCEPT !.logs = Append(@, chunk),
                !.progress = @ + ProgressStep(a)]

\* subprocess.stdout.on('data'): the record after the handler's writes
OnStdoutRecord(a, rec, chunk) ==
    [rec EXCEPT !.logs = Append(@, chunk),
                !.progress = Min(@ + ProgressStep(a), ProgressCap)]

\* subprocess.stderr.on('data'): the record after the handler's write
OnStderrRecord(rec, chunk) ==
    [rec EXCEPT !.logs = Append(@, chunk)]

\* the writes after `await subprocess`
CompletedRecord(o, rec) ==
    [rec EXCEPT !.status = "completed",
                !.progress = ProgressDone,
                !.message = DoneMessage(o),
                !.completedAt = TRUE]

\* The call: validation, then the record and its first delivery.
Begin(a, o, pkgs, opts, sink) ==
    /\ pc = "idle"
    /\ adapter' = a
    /\ op' = o
    /\ packages' = pkgs
    /\ options' = opts
    /\ onProgress' = sink
    /\ IF ~Validated(o, pkgs, opts)
       THEN /\ pc' = "done"
            /\ outcome' = "rejected"
            /\ UNCHANGED <<progress, delivered, nDelivered>>
       ELSE \E throws \in SinkThrows(sink) :
            /\ progress' = <<NewProgress(a, o, pkgs)>>
            /\ CallSink(sink, NewProgress(a, o, pkgs))
            /\ pc' = IF throws THEN "done" ELSE "spawn"
            /\ outcome' = IF throws THEN "rejected" ELSE outcome
    /\ UNCHANGED <<child, nSpawned, nChunks, ret, env, locals>>
    /\ UNCHANGED <<config, input, requests>>

\* execa(cmd, args, { cwd }), and for install the two listeners
Spawn ==
    /\ pc = "spawn"
    /\ \E started \in BOOLEAN :
         child' = [NoChild EXCEPT !.state = IF started THEN "running" ELSE "spawnError",
                                  !.cmd = adapter,
                                  !.args = Args(adapter, op, packages, options),
                                  !.streamed = Streams(op)]
    /\ nSpawned' = nSpawned + 1
    /\ pc' = "await"
    /\ UNCHANGED <<adapter, op, packages, options, onProgress, progress,
                   delivered, nDelivered, nChunks, outcome, ret, env, locals>>
    /\ UNCHANGED <<config, input, requests>>

ChildHasOutput ==
    /\ pc = "await"
    /\ child.state \in {"running", "exit0", "exitN"}
    /\ nChunks < MaxChunks

\* OnData whose stderr listener does not call the sink
OnDataQuietStderr(stream) ==
    /\ ChildHasOutput
    /\ child.streamed
    /\ nChunks' = nChunks + 1
    /\ LET rec == IF stream = "stdout"
                  THEN OnStdoutRecord(adapter, progress[1], nChunks + 1)
                  ELSE OnStderrRecord(progress[1], nChunks + 1)
       IN \E throws \in SinkThrows(onProgress) :
            /\ progress' = <<rec>>
            /\ IF stream = "stdout"
               THEN CallSink(onProgress, rec)
               ELSE UNCHANGED <<delivered, nDelivered>>
            /\ pc' = IF throws /\ stream = "stdout" THEN "done" ELSE pc
            /\ outcome' = IF throws /\ stream = "stdout" THEN "crashed" ELSE outcome
    /\ UNCHANGED <<adapter, op, packages, options, onProgress, child, nSpawned,
                   ret, env, locals>>
    /\ UNCHANGED <<config, input, requests>>

\* a 'data' event of the child's stdout or stderr reaches its listener; a
\* listener that throws is an uncaught exception of the server process
OnData(stream) ==
    /\ ChildHasOutput
    /\ child.streamed
    /\ nChunks' = nChunks + 1
    /\ LET rec == IF stream = "stdout"
                  THEN OnStdoutRecord(adapter, progress[1], nChunks + 1)
                  ELSE OnStderrRecord(progress[1], nChunks + 1)
       IN \E throws \in SinkThrows(onProgress) :
            /\ progress' = <<rec>>
            /\ CallSink(onProgress, rec)
            /\ pc' = IF throws THEN "done" ELSE pc
            /\ outcome' = IF throws THEN "crashed" ELSE outcome
    /\ UNCHANGED <<adapter, op, packages, options, onProgress, child, nSpawned,
                   ret, env, locals>>
    /\ UNCHANGED <<config, input, requests>>

\* the child writes a chunk and nothing listens: execa buffers it
OutputBuffered ==
    /\ ChildHasOutput
    /\ ~child.streamed
    /\ nChunks' = nChunks + 1
    /\ UNCHANGED <<adapter, op, pc, packages, options, onProgress, progress,
                   delivered, nDelivered, child, nSpawned, outcome, ret, env, locals>>
    /\ UNCHANGED <<config, input, requests>>

\* the child exits; the listeners may still receive what it had written
ChildExit ==
    /\ pc = "await"
    /\ child.state = "running"
    /\ \E code \in {"exit0", "exitN"} : child' = [child EXCEPT !.state = code]
    /\ UNCHANGED <<adapter, op, pc, packages, options, onProgress, progress,
                   delivered, nDelivered, nSpawned, nChunks, outcome, ret, env, locals>>
    /\ UNCHANGED <<config, input, requests>>

\* Complete that does not tell a failed child from one that exited with 0
CompleteOnAnyExit ==
    /\ pc = "await"
    /\ child.state \in {"exit0", "exitN"}
    /\ LET rec == CompletedRecord(op, progress[1])
       IN \E throws \in SinkThrows(onProgress) :
            /\ progress' = <<rec>>
            /\ CallSink(onProgress, rec)
            /\ outcome' = IF throws THEN "rejected" ELSE "resolved"
    /\ pc' = "done"
    /\ UNCHANGED <<adapter, op, packages, options, onProgress, child, nSpawned,
                   nChunks, ret, env, locals>>
    /\ UNCHANGED <<config, input, requests>>

\* `await subprocess` returns: the final writes and the final delivery
Complete ==
    /\ pc = "await"
    /\ child.state = "exit0"
    /\ LET rec == CompletedRecord(op, progress[1])
       IN \E throws \in SinkThrows(onProgress) :
            /\ progress' = <<rec>>
            /\ CallSink(onProgress, rec)
            /\ outcome' = IF throws THEN "rejected" ELSE "resolved"
    /\ pc' = "done"
    /\ UNCHANGED <<adapter, op, packages, options, onProgress, child, nSpawned,
                   nChunks, ret, env, locals>>
    /\ UNCHANGED <<config, input, requests>>

\* Fail with a catch clause that marks the record failed and delivers it
FailMarksFailed ==
    /\ pc = "await"
    /\ child.state \in {"exitN", "spawnError"}
    /\ LET rec == [progress[1] EXCEPT !.status = "failed"]
       IN /\ progress' = <<rec>>
          /\ CallSink(onProgress, rec)
    /\ outcome' = "rejected"
    /\ pc' = "done"
    /\ UNCHANGED <<adapter, op, packages, options, onProgress, child, nSpawned,
                   nChunks, ret, env, locals>>
    /\ UNCHANGED <<config, input, requests>>

\* `await subprocess` throws: the call rejects with the child's error
Fail ==
    /\ pc = "await"
    /\ child.state \in {"exitN", "spawnError"}
    /\ outcome' = "rejected"
    /\ pc' = "done"
    /\ UNCHANGED <<adapter, op, packages, options, onProgress, progress, delivered,
                   nDelivered, child, nSpawned, nChunks, ret, env, locals>>
    /\ UNCHANGED <<config, input, requests>>

----------------------------------------------------------------------------
(* detect *)

\* execa(..., { timeout: 5000 }) in NpmAdapter.detect and YarnAdapter.detect
DetectTimeoutMs == 5000

\* the `timeout` option of the version probe, 0 (execa's default) for none
ProbeTimeout(a) ==
    CASE a = "npm" -> DetectTimeoutMs
      [] a = "yarn" -> DetectTimeoutMs
      [] a = "pnpm" -> 0
      [] OTHER -> 0

Whitespace == {" ", "\n", "\t", "\r"}

\* String.prototype.trim
RECURSIVE TrimStart(_)
TrimStart(s) ==
    IF Len(s) > 0 /\ s[1] \in Whitespace THEN TrimStart(Tail(s)) ELSE s

RECURSIVE TrimEnd(_)
TrimEnd(s) ==
    IF Len(s) > 0 /\ s[Len(s)] \in Whitespace
    THEN TrimEnd(SubSeq(s, 1, Len(s) - 1))
    ELSE s

Trim(s) == TrimEnd(TrimStart(s))

\* what `<pm> --version` may print
VersionOutputs ==
    { <<"9", ".", "1", "\n">>, <<" ", "1", ".", "0", "\r", "\n">>, << >> }

\* the path `which` resolves to
BinaryPath(a) == "/usr/bin/" \o a

Unavailable(a) == [type |-> a, version |-> << >>, path |-> "", available |-> FALSE]

\* DetectResult that reports a binary found by `which` as available whatever
\* the version probe did
DetectResultIgnoringProbe(a, found, probed, stdout) ==
    IF found
    THEN [type |-> a, version |-> Trim(stdout), path |-> BinaryPath(a),
          available |-> TRUE]
    ELSE Unavailable(a)

\* the value detect() returns: `found` and `probed` tell whether `which` and
\* the version probe resolved, `stdout` is what the probe printed
DetectResult(a, found, probed, stdout) ==
    IF found /\ probed
    THEN [type |-> a, version |-> Trim(stdout), path |-> BinaryPath(a),
          available |-> TRUE]
    ELSE Unavailable(a)

DetectCall(a) ==
    /\ pc = "idle"
    /\ adapter' = a
    /\ op' = "detect"
    /\ pc' = "which"
    /\ UNCHANGED <<packages, options, onProgress, progress, delivered, nDelivered,
                   child, nSpawned, nChunks, outcome, ret, env, locals>>
    /\ UNCHANGED <<config, input, requests>>

\* `await which(pm)` settles; when it resolves the probe is spawned, when it
\* rejects the catch clause returns
DetectWhich ==
    /\ op = "detect"
    /\ pc = "which"
    /\ \/ /\ env' = [env EXCEPT !.which = "found"]
          /\ \E started \in BOOLEAN, hangs \in BOOLEAN :
               child' = [NoChild EXCEPT
                           !.state = IF started THEN "running" ELSE "spawnError",
                           !.cmd = adapter,
                           !.args = << <<"--version">> >>,
                           !.timeout = ProbeTimeout(adapter),
                           !.hangs = started /\ hangs]
          /\ nSpawned' = nSpawned + 1
          /\ pc' = "probe"
          /\ UNCHANGED <<ret, outcome>>
       \/ /\ env' = [env EXCEPT !.which = "missing"]
          /\ ret' = DetectResult(adapter, FALSE, FALSE, << >>)
          /\ outcome' = "resolved"
          /\ pc' = "done"
          /\ UNCHANGED <<child, nSpawned>>
    /\ UNCHANGED <<adapter, op, packages, options, onProgress, progress, delivered,
                   nDelivered, nChunks, locals>>
    /\ UNCHANGED <<config, input, requests>>

\* the probed binary exits by itself
ProbeExits ==
    /\ op = "detect"
    /\ pc = "probe"
    /\ child.state = "running"
    /\ ~child.hangs
    /\ \/ \E out \in VersionOutputs :
            /\ child' = [child EXCEPT !.state = "exit0"]
            /\ env' = [env EXCEPT !.probe = "ok", !.stdout = out]
       \/ /\ child' = [child EXCEPT !.state = "exitN"]
          /\ env' = [env EXCEPT !.probe = "failed"]
    /\ UNCHANGED <<adapter, op, pc, packages, options, onProgress, progress,
                   delivered, nDelivered, nSpawned, nChunks, outcome, ret, locals>>
    /\ UNCHANGED <<config, input, requests>>

\* execa's timer fires and kills the probe
ProbeTimesOut ==
    /\ op = "detect"
    /\ pc = "probe"
    /\ child.state = "running"
    /\ child.timeout > 0
    /\ child' = [child EXCEPT !.state = "killed"]
    /\ env' = [env EXCEPT !.probe = "timedOut"]
    /\ UNCHANGED <<adapter, op, pc, packages, options, onProgress, progress,
                   delivered, nDelivered, nSpawned, nChunks, outcome, ret, locals>>
    /\ UNCHANGED <<config, input, requests>>

\* `await execa(pm, ['--version'])` settles
DetectReturn ==
    /\ op = "detect"
    /\ pc = "probe"
    /\ child.state \in {"exit0", "exitN", "killed", "spawnError"}
    /\ ret' = DetectResult(adapter, env.which = "found", child.state = "exit0",
                           env.stdout)
    /\ outcome' = "resolved"
    /\ pc' = "done"
    /\ UNCHANGED <<adapter, op, packages, options, onProgress, progress, delivered,
                   nDelivered, child, nSpawned, nChunks, env, locals>>
    /\ UNCHANGED <<config, input, requests>>

----------------------------------------------------------------------------
(* What a child process leaves behind, and execa's view of it *)

\* JavaScript's a || b on texts and numbers: b when a is missing, "" or 0
Or(a, b) == IF a = "" THEN b ELSE a
\* n || d on numbers
NumOr(n, d) == IF n = 0 THEN d ELSE n

Ok(v) == [threw |-> FALSE, value |-> v]
Threw == [threw |-> TRUE, value |-> << >>]

\* Catch without its catch clause: the throw leaves the operation
CatchNothing(attempt, fallback) == attempt

\* try { ... } catch { return fallback }
Catch(attempt, fallback) == IF attempt.threw THEN Ok(fallback) ELSE attempt

\* One run of a child: `spawn` is "ok", "errorEvent" (the child could not be
\* started and says so with an 'error' event) or "throws" (spawn itself
\* throws); exitCode and stdout are those of a started child.
SpawnResults == {"ok", "errorEvent", "throws"}

\* whether `await execa(...)` throws: always when spawn throws, and on any
\* failure unless { reject: false }
ExecaThrows(run, reject) ==
    \/ run.spawn = "throws"
    \/ reject /\ (run.spawn = "errorEvent" \/ run.exitCode # 0)

\* whether stdout of the settled run is the empty text
StdoutEmpty(run) == run.spawn # "ok" \/ run.stdout.form = "empty"

----------------------------------------------------------------------------
(* getInstalledPackages / getGlobalPackages / getDependencyTree *)

EmptyRoot == [name |-> "root", version |-> "0.0.0", children |-> << >>]

Installed(name, version, isDev, isPeer) ==
    [name |-> name, version |-> version, isDev |-> isDev, isPeer |-> isPeer,
     hasUpdate |-> FALSE]

\* for (const [name, info] of Object.entries(deps)) packages.push({...})
FromDeps(deps, isDev) ==
    [i \in 1..Len(deps) |->
        Installed(deps[i].name, Or(deps[i].version, "unknown"), isDev, FALSE)]

\* parseDepTree(name, version, deps)
RECURSIVE parseDepTree(_, _, _)
parseDepTree(name, version, deps) ==
    [name |-> name, version |-> version,
     children |-> [i \in 1..Len(deps) |->
        parseDepTree(deps[i].name, Or(deps[i].version, "unknown"),
                     deps[i].dependencies)]]

\* JSON.parse(stdout) of `npm ls --json`; data.dependencies || {}
NpmList(doc) ==
    IF doc.form \in {"empty", "garbage", "null"} THEN Threw
    ELSE IF doc.form = "object" THEN Ok(FromDeps(doc.dependencies, FALSE))
    ELSE Ok(<< >>)

\* Array.isArray(data) ? data[0] : data, then list?.dependencies || {}
PnpmList(doc, withDev) ==
    IF doc.form \in {"empty", "garbage"} THEN Threw
    ELSE IF doc.form \in {"object", "array1"}
    THEN Ok(FromDeps(doc.dependencies, FALSE)
            \o (IF withDev THEN FromDeps(doc.devDependencies, TRUE) ELSE << >>))
    ELSE Ok(<< >>)

\* the last index of "@" that has a character on both sides, 0 when none:
\* where /^(.+)@(.+)$/ splits
LastAt(s) ==
    IF \E i \in 2..(Len(s) - 1) : s[i] = "@"
    THEN CHOOSE i \in 2..(Len(s) - 1) :
             s[i] = "@" /\ \A j \in (i + 1)..(Len(s) - 1) : s[j] # "@"
    ELSE 0

RECURSIVE Concat(_)
Concat(seqs) == IF Len(seqs) = 0 THEN << >> ELSE Head(seqs) \o Concat(Tail(seqs))

\* one line of `yarn list --json`: the packages of a line that parses and is
\* a 'tree' record with trees; nothing for any other line
YarnListLine(line) ==
    IF line.json /\ line.type = "tree" /\ line.hasTrees
    THEN Concat([i \in 1..Len(line.trees) |->
                   LET n == line.trees[i].name
                   IN IF LastAt(n) # 0
                      THEN << Installed(SubSeq(n, 1, LastAt(n) - 1),
                                        SubSeq(n, LastAt(n) + 1, Len(n)),
                                        FALSE, FALSE) >>
                      ELSE << >>])
    ELSE << >>

YarnList(doc) ==
    Ok(Concat([i \in 1..Len(doc.lines) |-> YarnListLine(doc.lines[i])]))

\* /^(.+)@(.+)$/ on a child of a yarn tree: m?.[1] || c.name || 'unknown'
YarnChild(c) ==
    IF LastAt(c.name) # 0
    THEN [name |-> SubSeq(c.name, 1, LastAt(c.name) - 1),
          version |-> SubSeq(c.name, LastAt(c.name) + 1, Len(c.name)),
          children |-> << >>]
    ELSE [name |-> IF Len(c.name) = 0 THEN <<"unknown">> ELSE c.name,
          version |-> <<"unknown">>,
          children |-> << >>]

\* parseYarnTree(data)
parseYarnTree(line) ==
    [name |-> "root", version |-> "0.0.0",
     children |->
        IF ~line.hasTrees THEN << >>
        ELSE Concat([i \in 1..Len(line.trees) |->
               LET t == line.trees[i]
               IN IF LastAt(t.name) # 0
                  THEN << [name |-> SubSeq(t.name, 1, LastAt(t.name) - 1),
                           version |-> SubSeq(t.name, LastAt(t.name) + 1, Len(t.name)),
                           children |-> [k \in 1..Len(t.children) |->
                                            YarnChild(t.children[k])]] >>
                  ELSE << >>])]

\* the first line that parses as a 'tree' record decides; none gives the
\* empty root
RECURSIVE YarnTree(_)
YarnTree(lines) ==
    IF Len(lines) = 0 THEN EmptyRoot
    ELSE IF Head(lines).json /\ Head(lines).type = "tree"
    THEN parseYarnTree(Head(lines))
    ELSE YarnTree(Tail(lines))

NotSpace(s) == \A i \in 1..Len(s) : s[i] \notin Whitespace

\* the end of the longest run of non-space characters from position i
RunEnd(s, i) ==
    CHOOSE e \in i..Len(s) :
        /\ NotSpace(SubSeq(s, i, e))
        /\ e = Len(s) \/ s[e + 1] \in Whitespace

\* line.includes(word)
Includes(s, word) ==
    \E i \in 1..(Len(s) - Len(word) + 1) : SubSeq(s, i, i + Len(word) - 1) = word

\* /^([^@\s]+)@(\S+)/ on one line of `bun pm ls`
BunLsLine(line, global) ==
    LET at == IndexOf(line, "@")
    IN IF /\ at >= 2
          /\ NotSpace(SubSeq(line, 1, at - 1))
          /\ at < Len(line)
          /\ line[at + 1] \notin Whitespace
       THEN << Installed(SubSeq(line, 1, at - 1),
                         SubSeq(line, at + 1, RunEnd(line, at + 1)),
                         ~global /\ Includes(line, <<"d","e","v">>),
                         ~global /\ Includes(line, <<"p","e","e","r">>)) >>
       ELSE << >>

BunList(doc, global) ==
    Ok(Concat([i \in 1..Len(doc.lines) |-> BunLsLine(doc.lines[i], global)]))

\* { ...pkg.dependencies, ...pkg.devDependencies }: a name of both keeps its
\* place and takes the devDependencies version
Spread(deps, devDeps) ==
    [i \in 1..Len(deps) |->
        IF \E k \in 1..Len(devDeps) : devDeps[k].name = deps[i].name
        THEN [deps[i] EXCEPT !.version =
                 devDeps[CHOOSE k \in 1..Len(devDeps) : devDeps[k].name = deps[i].name].version]
        ELSE deps[i]]
    \o SelectSeq(devDeps, LAMBDA d : \A k \in 1..Len(deps) : deps[k].name # d.name)

\* BunAdapter.getDependencyTree on the text of package.json
BunTree(doc) ==
    IF doc.form \in {"empty", "garbage", "null"} THEN Threw
    ELSE IF doc.form = "object"
    THEN Ok([name |-> Or(doc.name, "root"), version |-> Or(doc.version, "0.0.0"),
             children |-> [i \in 1..Len(Spread(doc.dependencies, doc.devDependencies)) |->
                 [name |-> Spread(doc.dependencies, doc.devDependencies)[i].name,
                  version |-> Spread(doc.dependencies, doc.devDependencies)[i].version,
                  children |-> << >>]]])
    ELSE Ok(EmptyRoot)

\* npm / pnpm getDependencyTree on the parsed listing
JsonTree(a, doc) ==
    IF doc.form \in {"empty", "garbage", "null"} THEN Threw
    ELSE IF doc.form = "array0" THEN (IF a = "pnpm" THEN Threw ELSE Ok(EmptyRoot))
    ELSE IF doc.form = "array1" /\ a = "npm" THEN Ok(EmptyRoot)
    ELSE Ok(parseDepTree(Or(doc.name, "root"), Or(doc.version, "0.0.0"), doc.dependencies))

----------------------------------------------------------------------------
(* audit *)

ZeroSummary == [critical |-> 0, high |-> 0, moderate |-> 0, low |-> 0, total |-> 0]
NoVulnerabilities == [vulnerabilities |-> << >>, summary |-> ZeroSummary]

\* one advisory record (npm v6, pnpm, yarn) as a VulnerabilityInfo
FromAdvisory(adv) ==
    [id |-> Or(adv.id, "unknown"),
     title |-> Or(adv.title, "Unknown vulnerability"),
     severity |-> Or(adv.severity, "moderate"),
     package |-> Or(adv.module_name, "unknown"),
     version |-> Or(adv.vulnerable_versions, "*"),
     recommendation |-> <<Or(adv.recommendation, "Update to latest version")>>,
     url |-> adv.url]

\* one entry of npm v7's `vulnerabilities` object: a VulnerabilityInfo per
\* `via` that is an object with a title
FromVulnerability(vuln) ==
    Concat([i \in 1..Len(vuln.via) |->
        LET via == vuln.via[i]
        IN IF via.object /\ via.title # ""
           THEN << [id |-> Or(via.source, Or(via.cve, "unknown")),
                    title |-> via.title,
                    severity |-> Or(vuln.severity, "moderate"),
                    package |-> vuln.name,
                    version |-> Or(vuln.range, "*"),
                    recommendation |->
                        IF Len(vuln.fixAvailable) > 0
                        THEN <<"Update to ", vuln.fixAvailable[1].name, "@",
                               vuln.fixAvailable[1].version>>
                        ELSE <<"Update to latest version">>,
                    url |-> via.url] >>
           ELSE << >>])

\* data.metadata?.vulnerabilities?.x || 0, and total || vulnerabilities.length
SummaryFromMetadata(metadata, found) ==
    IF Len(metadata) = 0
    THEN [ZeroSummary EXCEPT !.total = Len(found)]
    ELSE [critical |-> metadata[1].critical,
          high |-> metadata[1].high,
          moderate |-> metadata[1].moderate,
          low |-> metadata[1].low,
          total |-> NumOr(metadata[1].total, Len(found))]

\* the body of NpmAdapter.audit / BunAdapter.audit after JSON.parse
NpmAuditParse(doc) ==
    IF doc.form \in {"garbage", "null"} THEN Threw
    ELSE LET found ==
                 Concat([i \in 1..Len(doc.vulnerabilities) |->
                            FromVulnerability(doc.vulnerabilities[i])])
                 \o [i \in 1..Len(doc.advisories) |-> FromAdvisory(doc.advisories[i])]
         IN Ok([vulnerabilities |-> found,
                summary |-> SummaryFromMetadata(doc.metadata, found)])

\* the body of PnpmAdapter.audit after JSON.parse
PnpmAuditParse(doc) ==
    IF doc.form \in {"garbage", "null"} THEN Threw
    ELSE LET found == [i \in 1..Len(doc.advisories) |-> FromAdvisory(doc.advisories[i])]
         IN Ok([vulnerabilities |-> found,
                summary |-> SummaryFromMetadata(doc.metadata, found)])

\* the lines of `yarn audit --json`: a line that does not parse, or whose
\* record lacks what its type promises, is skipped
YarnAdvisories(lines) ==
    Concat([i \in 1..Len(lines) |->
        IF lines[i].json /\ lines[i].type = "auditAdvisory" /\ Len(lines[i].advisory) > 0
        THEN <<FromAdvisory(lines[i].advisory[1])>>
        ELSE << >>])

\* the summary of the last 'auditSummary' line, all zero without one
RECURSIVE YarnSummary(_, _)
YarnSummary(lines, summary) ==
    IF Len(lines) = 0 THEN summary
    ELSE IF Head(lines).json /\ Head(lines).type = "auditSummary" /\ Head(lines).hasData
    THEN YarnSummary(Tail(lines),
             IF Len(Head(lines).counts) = 0 THEN ZeroSummary ELSE Head(lines).counts[1])
    ELSE YarnSummary(Tail(lines), summary)

YarnAuditParse(doc) ==
    Ok([vulnerabilities |-> YarnAdvisories(doc.lines),
        summary |-> YarnSummary(doc.lines, ZeroSummary)])

\* audit(cwd) inside its try: `npmFound` is the answer of which('npm'), asked
\* by the Bun adapter only
AuditAttempt(a, npmFound, run) ==
    IF a = "bun" /\ ~npmFound THEN Ok(NoVulnerabilities)
    ELSE IF ExecaThrows(run, FALSE) THEN Threw
    ELSE IF StdoutEmpty(run) THEN Ok(NoVulnerabilities)
    ELSE CASE a = "pnpm" -> PnpmAuditParse(run.stdout)
           [] a = "yarn" -> YarnAuditParse(run.stdout)
           [] OTHER -> NpmAuditParse(run.stdout)

\* audit(cwd): the AuditResult it resolves with, or a throw
Audit(a, npmFound, run) == Catch(AuditAttempt(a, npmFound, run), NoVulnerabilities)

----------------------------------------------------------------------------
(* Sample outputs of the child processes *)

Dep(name, version, deps) == [name |-> name, version |-> version, dependencies |-> deps]

LsDoc(form, name, version, deps, devDeps) ==
    [form |-> form, name |-> name, version |-> version,
     dependencies |-> deps, devDependencies |-> devDeps]

\* `npm ls --json`, `pnpm ls --json`, and package.json for the Bun tree
LsDocs ==
    { LsDoc("empty", "", "", << >>, << >>),
      LsDoc("garbage", "", "", << >>, << >>),
      LsDoc("null", "", "", << >>, << >>),
      LsDoc("array0", "", "", << >>, << >>),
      LsDoc("object", "", "", << >>, << >>),
      LsDoc("object", "app", "1.0.0",
            << Dep("lodash", "4.17.21", << >>),
               Dep("express", "", << Dep("qs", "6.0.0", << >>) >>) >>,
            << Dep("lodash", "4.0.0", << >>), Dep("jest", "29.0.0", << >>) >>),
      LsDoc("array1", "app", "",
            << Dep("lodash", "4.17.21", << >>) >>,
            << Dep("jest", "29.0.0", << >>) >>) }

YarnTreeOf(name, children) ==
    [name |-> name, children |-> [i \in 1..Len(children) |-> [name |-> children[i]]]]

YarnLine(json, type, hasTrees, trees) ==
    [json |-> json, type |-> type, hasTrees |-> hasTrees, trees |-> trees]

LinesDoc(lines) == [form |-> IF Len(lines) = 0 THEN "empty" ELSE "lines", lines |-> lines]

YarnGarbageLine == YarnLine(FALSE, "", FALSE, << >>)
YarnInfoLine == YarnLine(TRUE, "info", FALSE, << >>)
YarnTreeLine ==
    YarnLine(TRUE, "tree", TRUE,
             << YarnTreeOf(<<"l","o","@","1">>, << <<"q","@","2">>, <<"z">> >>),
                YarnTreeOf(<<"@","s","/","p","@","3">>, << >>),
                YarnTreeOf(<<"n","o","v">>, << >>) >>)

\* `yarn list --json`
YarnListDocs ==
    { LinesDoc(<< >>),
      LinesDoc(<<YarnGarbageLine>>),
      LinesDoc(<<YarnInfoLine, YarnTreeLine>>),
      LinesDoc(<<YarnGarbageLine, YarnTreeLine>>),
      LinesDoc(<<YarnLine(TRUE, "tree", FALSE, << >>)>>) }

\* `bun pm ls`
BunLsDocs ==
    { LinesDoc(<< >>),
      LinesDoc(<< <<"/","a","p","p"," ","n","o","d","e">> >>),
      LinesDoc(<< <<"l","o","@","1"," ","d","e","v">>,
                  <<"@","s","/","p","@","3">>,
                  <<"q","@","2">> >>) }

Advisory(id, severity, module) ==
    [id |-> id, title |-> IF id = "" THEN "" ELSE "Prototype pollution",
     severity |-> severity, module_name |-> module, vulnerable_versions |-> "",
     recommendation |-> "", url |-> ""]

Via(object, title) ==
    [object |-> object, title |-> title, source |-> "", cve |-> "", url |-> ""]

Vulnerability(name, severity, via, fix) ==
    [name |-> name, severity |-> severity, range |-> "<1.0.0", via |-> via,
     fixAvailable |-> fix]

Counts(critical, high, moderate, low, total) ==
    [critical |-> critical, high |-> high, moderate |-> moderate, low |-> low,
     total |-> total]

AuditDoc(form, vulns, advisories, metadata) ==
    [form |-> form, vulnerabilities |-> vulns, advisories |-> advisories,
     metadata |-> metadata]

\* `npm audit --json` (also run by the Bun adapter) and `pnpm audit --json`
JsonAuditDocs ==
    { AuditDoc("empty", << >>, << >>, << >>),
      AuditDoc("garbage", << >>, << >>, << >>),
      AuditDoc("null", << >>, << >>, << >>),
      AuditDoc("object",
               << Vulnerability("lodash", "high",
                                << Via(TRUE, "Prototype pollution"), Via(FALSE, "") >>,
                                << [name |-> "lodash", version |-> "4.17.21"] >>),
                  Vulnerability("qs", "", << Via(TRUE, "DoS") >>, << >>) >>,
               << >>, << >>),
      AuditDoc("object", << >>,
               << Advisory("1", "", "qs"), Advisory("", "info", "") >>, << >>) }
    \cup { AuditDoc("object", << >>, << Advisory("1", "low", "qs") >>,
                    << Counts(0, 0, 0, n, n) >>) : n \in 0..MaxVulns }

YarnAuditLine(json, type, hasData, advisory, counts) ==
    [json |-> json, type |-> type, hasData |-> hasData, advisory |-> advisory,
     counts |-> counts]

\* `yarn audit --json`
YarnAuditDocs ==
    { LinesDoc(<< >>),
      LinesDoc(<< YarnAuditLine(FALSE, "", FALSE, << >>, << >>) >>),
      LinesDoc(<< YarnAuditLine(TRUE, "auditAdvisory", TRUE,
                                << Advisory("1", "", "qs") >>, << >>),
                  YarnAuditLine(FALSE, "", FALSE, << >>, << >>) >>) }
    \cup { LinesDoc(<< YarnAuditLine(TRUE, "auditAdvisory", TRUE,
                                     << Advisory("1", "high", "qs") >>, << >>),
                       YarnAuditLine(TRUE, "auditSummary", TRUE, << >>,
                                     << Counts(0, n, 0, 0, n) >>) >>) : n \in 0..MaxVulns }

\* what the child of a read operation may print
Docs(a, o) ==
    CASE o = "audit" -> IF a = "yarn" THEN YarnAuditDocs ELSE JsonAuditDocs
      [] o = "getDependencyTree" -> IF a = "yarn" THEN YarnListDocs ELSE LsDocs
      [] OTHER -> CASE a = "yarn" -> YarnListDocs
                    [] a = "bun" -> BunLsDocs
                    [] OTHER -> LsDocs

NoDoc == [form |-> "empty"]
NoRun == [spawn |-> "", exitCode |-> 0, stdout |-> NoDoc]

\* the runs of the child of read operation o of adapter a
Runs(a, o) ==
    { [spawn |-> "ok", exitCode |-> c, stdout |-> d] : c \in {0, 1}, d \in Docs(a, o) }
    \cup { [spawn |-> sp, exitCode |-> 1, stdout |-> NoDoc] :
             sp \in SpawnResults \ {"ok"} }

----------------------------------------------------------------------------
(* The read operations as calls *)

ListOps == {"getInstalledPackages", "getGlobalPackages"}

\* the body of the read operation inside its try
ReadAttempt(a, o, npmFound, run) ==
    IF o = "audit" THEN AuditAttempt(a, npmFound, run)
    ELSE IF ExecaThrows(run, TRUE) THEN Threw
    ELSE IF o = "getDependencyTree"
    THEN CASE a = "yarn" -> Ok(YarnTree(run.stdout.lines))
           [] a = "bun" -> BunTree(run.stdout)
           [] OTHER -> JsonTree(a, run.stdout)
    ELSE CASE a = "npm" -> NpmList(run.stdout)
           [] a = "pnpm" -> PnpmList(run.stdout, o = "getInstalledPackages")
           [] a = "yarn" -> YarnList(run.stdout)
           [] OTHER -> BunList(run.stdout, o = "getGlobalPackages")

\* what the catch clause of the read operation returns
ReadDefault(o) ==
    CASE o = "audit" -> NoVulnerabilities
      [] o = "getDependencyTree" -> EmptyRoot
      [] OTHER -> << >>

ReadResult(a, o, npmFound, run) ==
    Catch(ReadAttempt(a, o, npmFound, run), ReadDefault(o))

ReadCmd(a, o) ==
    IF a = "bun" THEN (CASE o = "audit" -> "npm"
                         [] o = "getDependencyTree" -> "cat"
                         [] OTHER -> "bun")
    ELSE a

ReadArgs(a, o) ==
    CASE o = "audit" -> <<"audit", "--json">>
      [] o = "getDependencyTree" ->
           CASE a = "npm" -> <<"ls", "--json", "--all">>
             [] a = "pnpm" -> <<"ls", "--json", "--depth=Infinity">>
             [] a = "yarn" -> <<"list", "--json">>
             [] OTHER -> <<"package.json">>
      [] o = "getInstalledPackages" ->
           CASE a = "yarn" -> <<"list", "--json", "--depth=0">>
             [] a = "bun" -> <<"pm", "ls">>
             [] OTHER -> <<"ls", "--json", "--depth=0">>
      [] OTHER ->
           CASE a = "yarn" -> <<"global", "list", "--json", "--depth=0">>
             [] a = "bun" -> <<"pm", "ls", "-g">>
             [] OTHER -> <<"ls", "-g", "--json", "--depth=0">>

ReadChild(a, o) ==
    [NoChild EXCEPT !.state = "running", !.cmd = ReadCmd(a, o), !.args = ReadArgs(a, o)]

\* the call of a read operation; the Bun adapter's audit looks for npm first
ReadCall(a, o) ==
    /\ pc = "idle"
    /\ adapter' = a
    /\ op' = o
    /\ IF a = "bun" /\ o = "audit"
       THEN /\ pc' = "whichNpm"
            /\ UNCHANGED <<child, nSpawned>>
       ELSE /\ pc' = "reading"
            /\ child' = ReadChild(a, o)
            /\ nSpawned' = nSpawned + 1
    /\ UNCHANGED <<packages, options, onProgress, progress, delivered, nDelivered,
                   nChunks, outcome, ret, env, locals>>
    /\ UNCHANGED <<config, input, requests>>

\* `await which('npm')` of BunAdapter.audit settles
ReadWhichNpm ==
    /\ op = "audit"
    /\ pc = "whichNpm"
    /\ \/ /\ env' = [env EXCEPT !.which = "found"]
          /\ pc' = "reading"
          /\ child' = ReadChild(adapter, op)
          /\ nSpawned' = nSpawned + 1
          /\ UNCHANGED <<outcome, ret>>
       \/ /\ env' = [env EXCEPT !.which = "missing"]
          /\ LET r == ReadResult(adapter, op, FALSE, NoRun)
             IN /\ ret' = r.value
                /\ outcome' = IF r.threw THEN "rejected" ELSE "resolved"
          /\ pc' = "done"
          /\ UNCHANGED <<child, nSpawned>>
    /\ UNCHANGED <<adapter, op, packages, options, onProgress, progress, delivered,
                   nDelivered, nChunks, locals>>
    /\ UNCHANGED <<config, input, requests>>

\* the child of the read operation ends and the operation returns
ReadSettle ==
    /\ op \in ReadOps
    /\ pc = "reading"
    /\ \E run \in Runs(adapter, op) :
         LET r == ReadResult(adapter, op, TRUE, run)
         IN /\ env' = [env EXCEPT !.run = run]
            /\ child' = [child EXCEPT !.state =
                            IF run.spawn # "ok" THEN "spawnError"
                            ELSE IF run.exitCode = 0 THEN "exit0" ELSE "exitN"]
            /\ ret' = r.value
            /\ outcome' = IF r.threw THEN "rejected" ELSE "resolved"
    /\ pc' = "done"
    /\ UNCHANGED <<adapter, op, packages, options, onProgress, progress, delivered,
                   nDelivered, nSpawned, nChunks, locals>>
    /\ UNCHANGED <<config, input, requests>>

----------------------------------------------------------------------------
(* auditFix *)

\* String(error)
ErrorText == "Error"

FixRunningMessage(a) ==
    CASE a = "pnpm" -> "Running pnpm audit --fix..."
      [] a = "yarn" -> "Running yarn upgrade..."
      [] OTHER -> "Running npm audit fix..."

\* `Fixed ${fixed} vulnerabilities`
FixedMessage(fixed) == "Fixed " \o ToString(fixed) \o " vulnerabilities"

\* Math.max(0, beforeCount - remaining.summary.total)
Fixed(beforeCount, afterCount) == Max(0, beforeCount - afterCount)

\* the writes of the catch clauses
FailedRecord(rec, message) == [rec EXCEPT !.status = "failed", !.message = message]

\* the writes of the two milestones
MilestoneRecord(rec, percent, message) ==
    [rec EXCEPT !.progress = percent, !.message = message]

\* the writes of the success path
FixCompletedRecord(rec, fixed) ==
    [rec EXCEPT !.status = "completed",
                !.progress = ProgressDone,
                !.message = FixedMessage(fixed),
                !.completedAt = TRUE]

FixResult(fixed, remaining, logs) ==
    [fixed |-> fixed, remaining |-> remaining, logs |-> logs]

\* the fix command
FixChild(a) ==
    [NoChild EXCEPT !.state = "running",
                    !.cmd = IF a = "bun" THEN "npm" ELSE a,
                    !.args = CASE a = "pnpm" -> <<"audit", "--fix">>
                               [] a = "yarn" -> <<"upgrade">>
                               [] OTHER -> <<"audit", "fix">>]

\* how the fix command may end: whether it printed on stdout and on stderr
FixRuns ==
    { [spawn |-> "ok", exitCode |-> c, out |-> o, err |-> e] :
        c \in {0, 1}, o \in BOOLEAN, e \in BOOLEAN }
    \cup { [spawn |-> sp, exitCode |-> 1, out |-> FALSE, err |-> FALSE] :
             sp \in SpawnResults \ {"ok"} }

\* which('npm') as BunAdapter.audit sees it; the others do not ask
NpmLookups(a) == IF a = "bun" THEN BOOLEAN ELSE {TRUE}

\* the call: the record and its first delivery, outside the try
FixCall(a, sink) ==
    /\ pc = "idle"
    /\ adapter' = a
    /\ op' = "auditFix"
    /\ onProgress' = sink
    /\ \E throws \in SinkThrows(sink) :
         /\ progress' = <<NewProgress(a, "auditFix", << >>)>>
         /\ CallSink(sink, NewProgress(a, "auditFix", << >>))
         /\ pc' = IF throws THEN "done"
                  ELSE IF a = "bun" THEN "fixWhich" ELSE "fixBefore"
         /\ outcome' = IF throws THEN "rejected" ELSE outcome
    /\ UNCHANGED <<packages, options, child, nSpawned, nChunks, ret, env, locals>>
    /\ UNCHANGED <<config, input, requests>>

\* BunAdapter.auditFix: `await which('npm')` settles
FixWhich ==
    /\ op = "auditFix"
    /\ pc = "fixWhich"
    /\ \/ /\ env' = [env EXCEPT !.which = "found"]
          /\ pc' = "fixBefore"
          /\ UNCHANGED <<progress, delivered, nDelivered, outcome, ret, locals>>
       \/ /\ env' = [env EXCEPT !.which = "missing"]
          /\ LET rec == FailedRecord(progress[1], "npm not found for audit fix")
             IN \E throws \in SinkThrows(onProgress) :
                  /\ progress' = <<rec>>
                  /\ CallSink(onProgress, rec)
                  /\ pc' = IF throws THEN "fixCatch" ELSE "done"
                  /\ outcome' = IF throws THEN outcome ELSE "resolved"
                  /\ ret' = IF throws THEN ret
                            ELSE FixResult(0, NoVulnerabilities,
                                           <<"npm not available for audit fix">>)
          /\ UNCHANGED locals
    /\ UNCHANGED <<adapter, op, packages, options, onProgress, child, nSpawned,
                   nChunks>>
    /\ UNCHANGED <<config, input, requests>>

\* the first audit resolves: the 20 % milestone, then the fix command starts
FixBefore ==
    /\ op = "auditFix"
    /\ pc = "fixBefore"
    /\ \E npmFound \in NpmLookups(adapter), run \in Runs(adapter, "audit") :
         LET before == Audit(adapter, npmFound, run)
             rec == MilestoneRecord(progress[1], ProgressFixRunning,
                                    FixRunningMessage(adapter))
         IN IF before.threw
            THEN /\ pc' = "fixCatch"
                 /\ nSpawned' = nSpawned + 1
                 /\ UNCHANGED <<progress, delivered, nDelivered, child, locals>>
            ELSE \E throws \in SinkThrows(onProgress) :
                 /\ locals' = [locals EXCEPT !.beforeCount = before.value.summary.total]
                 /\ progress' = <<rec>>
                 /\ CallSink(onProgress, rec)
                 /\ pc' = IF throws THEN "fixCatch" ELSE "fixRun"
                 /\ child' = IF throws THEN child ELSE FixChild(adapter)
                 /\ nSpawned' = nSpawned + (IF npmFound THEN 1 ELSE 0)
                                         + (IF throws THEN 0 ELSE 1)
    /\ UNCHANGED <<adapter, op, packages, options, onProgress, nChunks, outcome,
                   ret, env>>
    /\ UNCHANGED <<config, input, requests>>

\* the fix command ends: its output is kept, the 70 % milestone, the re-scan
FixRun ==
    /\ op = "auditFix"
    /\ pc = "fixRun"
    /\ \E run \in FixRuns :
         LET rec == MilestoneRecord(progress[1], ProgressFixRescan, "Re-scanning...")
         IN /\ child' = [child EXCEPT !.state =
                            IF run.spawn # "ok" THEN "spawnError"
                            ELSE IF run.exitCode = 0 THEN "exit0" ELSE "exitN"]
            /\ IF ExecaThrows(run, FALSE)
               THEN /\ pc' = "fixCatch"
                    /\ UNCHANGED <<progress, delivered, nDelivered, locals>>
               ELSE \E throws \in SinkThrows(onProgress) :
                    /\ locals' = [locals EXCEPT !.logs =
                                     (IF run.out THEN <<"stdout">> ELSE << >>)
                                     \o (IF run.err THEN <<"stderr">> ELSE << >>)]
                    /\ progress' = <<rec>>
                    /\ CallSink(onProgress, rec)
                    /\ pc' = IF throws THEN "fixCatch" ELSE "fixAfter"
    /\ UNCHANGED <<adapter, op, packages, options, onProgress, nSpawned, nChunks,
                   outcome, ret, env>>
    /\ UNCHANGED <<config, input, requests>>

\* the re-scan resolves: `fixed`, the final writes and the final delivery
FixAfter ==
    /\ op = "auditFix"
    /\ pc = "fixAfter"
    /\ \E npmFound \in NpmLookups(adapter), run \in Runs(adapter, "audit") :
         LET remaining == Audit(adapter, npmFound, run)
             fixed == Fixed(locals.beforeCount, remaining.value.summary.total)
             rec == FixCompletedRecord(progress[1], fixed)
         IN IF remaining.threw
            THEN /\ pc' = "fixCatch"
                 /\ nSpawned' = nSpawned + 1
                 /\ UNCHANGED <<progress, delivered, nDelivered, locals, outcome, ret>>
            ELSE \E throws \in SinkThrows(onProgress) :
                 /\ locals' = [locals EXCEPT !.rescanned = TRUE,
                                             !.afterCount = remaining.value.summary.total,
                                             !.fixed = fixed]
                 /\ progress' = <<rec>>
                 /\ CallSink(onProgress, rec)
                 /\ nSpawned' = nSpawned + (IF npmFound THEN 1 ELSE 0)
                 /\ pc' = IF throws THEN "fixCatch" ELSE "done"
                 /\ outcome' = IF throws THEN outcome ELSE "resolved"
                 /\ ret' = IF throws THEN ret
                           ELSE FixResult(fixed, remaining.value, locals.logs)
    /\ UNCHANGED <<adapter, op, packages, options, onProgress, child, nChunks, env>>
    /\ UNCHANGED <<config, input, requests>>

\* FixCatch that throws the error again after the delivery
FixCatchRethrows ==
    /\ op = "auditFix"
    /\ pc = "fixCatch"
    /\ LET rec == FailedRecord(progress[1], ErrorText)
       IN /\ progress' = <<rec>>
          /\ CallSink(onProgress, rec)
          /\ outcome' = "rejected"
          /\ ret' = ret
    /\ pc' = "done"
    /\ UNCHANGED <<adapter, op, packages, options, onProgress, child, nSpawned,
                   nChunks, env, locals>>
    /\ UNCHANGED <<config, input, requests>>

\* the catch clause: the record is marked failed and delivered once more
FixCatch ==
    /\ op = "auditFix"
    /\ pc = "fixCatch"
    /\ LET rec == FailedRecord(progress[1], ErrorText)
       IN \E throws \in SinkThrows(onProgress) :
            /\ progress' = <<rec>>
            /\ CallSink(onProgress, rec)
            /\ outcome' = IF throws THEN "rejected" ELSE "resolved"
            /\ ret' = IF throws THEN ret
                      ELSE FixResult(0, NoVulnerabilities, locals.logs)
    /\ pc' = "done"
    /\ UNCHANGED <<adapter, op, packages, options, onProgress, child, nSpawned,
                   nChunks, env, locals>>
    /\ UNCHANGED <<config, input, requests>>

----------------------------------------------------------------------------
(* setRegistry and getRegistry *)

\* the command setRegistry runs
SetRegistryCmd(a) == IF a = "bun" THEN "echo" ELSE a

SetRegistryArgs(a, url) ==
    IF a = "bun"
    THEN << <<"r","e","g","i","s","t","r","y"," ","="," ","\"">> \o url \o <<"\"">> >>
    ELSE << <<"config">>, <<"set">>, <<"registry">>, url >>

\* the configuration after the command of setRegistry has exited with 0:
\* `config set registry <url>` stores the URL, `echo` stores nothing
ConfigAfterSet(a, cfg, url) == IF a = "bun" THEN cfg ELSE url

\* what `<pm> config get registry` prints
ConfigGetOutput(cfg) == cfg \o <<"\n">>

\* the constant BunAdapter.getRegistry returns
BunRegistry ==
    <<"h","t","t","p","s",":","/","/","r","e","g","i","s","t","r","y",".","n","p","m","j","s",".","o","r","g","/">>

\* setRegistry(url): validation, then the command is spawned
SetRegistryCall(a, url) ==
    /\ pc = "idle"
    /\ adapter' = a
    /\ op' = "setRegistry"
    /\ input' = url
    /\ IF validateUrl(url)
       THEN /\ child' = [NoChild EXCEPT !.state = "running",
                                        !.cmd = SetRegistryCmd(a),
                                        !.args = SetRegistryArgs(a, url)]
            /\ nSpawned' = nSpawned + 1
            /\ pc' = "setting"
            /\ UNCHANGED outcome
       ELSE /\ pc' = "done"
            /\ outcome' = "rejected"
            /\ UNCHANGED <<child, nSpawned>>
    /\ UNCHANGED <<packages, options, onProgress, progress, delivered, nDelivered,
                   nChunks, ret, env, locals, config, requests>>

\* the command of setRegistry ends
SetRegistrySettle ==
    /\ op = "setRegistry"
    /\ pc = "setting"
    /\ \E exit \in {"exit0", "exitN", "spawnError"} :
         /\ child' = [child EXCEPT !.state = exit]
         /\ config' = IF exit = "exit0" THEN ConfigAfterSet(adapter, config, input)
                      ELSE config
         /\ outcome' = IF exit = "exit0" THEN "resolved" ELSE "rejected"
    /\ pc' = "done"
    /\ UNCHANGED <<adapter, op, packages, options, onProgress, progress, delivered,
                   nDelivered, nSpawned, nChunks, ret, env, locals, input, requests>>

\* getRegistry(), as the first call or after a setRegistry on the same
\* adapter; `input` keeps the URL of a setRegistry that resolved
GetRegistryCall(a) ==
    /\ \/ pc = "idle"
       \/ op = "setRegistry" /\ pc = "done" /\ a = adapter
    /\ adapter' = a
    /\ op' = "getRegistry"
    /\ input' = IF op = "setRegistry" /\ outcome = "resolved" THEN input ELSE << >>
    /\ IF a = "bun"
       THEN /\ ret' = BunRegistry
            /\ outcome' = "resolved"
            /\ pc' = "done"
            /\ UNCHANGED <<child, nSpawned>>
       ELSE /\ child' = [NoChild EXCEPT !.state = "running", !.cmd = a,
                                        !.args = <<"config", "get", "registry">>]
            /\ nSpawned' = nSpawned + 1
            /\ outcome' = "pending"
            /\ pc' = "getting"
            /\ UNCHANGED ret
    /\ UNCHANGED <<packages, options, onProgress, progress, delivered, nDelivered,
                   nChunks, env, locals, config, requests>>

\* the command of getRegistry ends
GetRegistrySettle ==
    /\ op = "getRegistry"
    /\ pc = "getting"
    /\ \E exit \in {"exit0", "exitN", "spawnError"} :
         /\ child' = [child EXCEPT !.state = exit]
         /\ ret' = IF exit = "exit0" THEN Trim(ConfigGetOutput(config)) ELSE ret
         /\ outcome' = IF exit = "exit0" THEN "resolved" ELSE "rejected"
    /\ pc' = "done"
    /\ UNCHANGED <<adapter, op, packages, options, onProgress, progress, delivered,
                   nDelivered, nSpawned, nChunks, env, locals, config, input, requests>>

----------------------------------------------------------------------------
(* services/remote: checkVulnerabilities *)

OSV_API == "https://api.osv.dev/v1/querybatch"
NPM_REGISTRY == "https://registry.npmjs.org"

UpperSeq == <<"A","B","C","D","E","F","G","H","I","J","K","L","M",
              "N","O","P","Q","R","S","T","U","V","W","X","Y","Z">>
LowerSeq == <<"a","b","c","d","e","f","g","h","i","j","k","l","m",
              "n","o","p","q","r","s","t","u","v","w","x","y","z">>

\* String.prototype.toLowerCase
toLowerCase(s) ==
    [i \in 1..Len(s) |->
        IF s[i] \in Upper
        THEN LowerSeq[CHOOSE k \in 1..Len(UpperSeq) : UpperSeq[k] = s[i]]
        ELSE s[i]]

\* mapOsvSeverity(severity); the empty text stands for undefined and ''
mapOsvSeverity(severity) ==
    IF Len(severity) = 0 THEN "moderate"
    ELSE LET s == toLowerCase(severity)
         IN IF s = <<"c","r","i","t","i","c","a","l">> THEN "critical"
            ELSE IF s = <<"h","i","g","h">> THEN "high"
            ELSE IF s = <<"m","o","d","e","r","a","t","e">> \/ s = <<"m","e","d","i","u","m">> THEN "moderate"
            ELSE "low"

\* a package of the remote project: { name, version }
Pkg(name, version) == [name |-> name, version |-> version]

PkgLodash == Pkg("lodash", <<"4",".","1","7",".","2","0">>)
PkgExpress == Pkg("express", <<"^","4",".","1","8",".","0">>)
PkgQs == Pkg("qs", <<"6",".","5",".","0","-","r","c",".","1">>)

\* the `packages` argument of checkVulnerabilities and checkUpdates
RemotePackageLists ==
    { << >>, <<PkgLodash>>, <<PkgLodash, PkgExpress>>, <<PkgQs, PkgLodash>> }

\* one entry of `vulns` in an OSV answer: `severity` is absent, a text, or
\* (as the OSV schema has it) a list of { type, score }; `fixed` is the first
\* fixed version of the first range, empty when there is none
OsvVuln(id, summary, severity, dbSeverity, fixed) ==
    [id |-> id, summary |-> summary, severity |-> severity,
     dbSeverity |-> dbSeverity, fixed |-> fixed, url |-> ""]

SevAbsent == [kind |-> "absent", text |-> << >>]
SevText(text) == [kind |-> "text", text |-> text]
SevList == [kind |-> "list", text |-> << >>]

\* the severities the sample answers carry as text
OsvSeverities ==
    { <<"C","R","I","T","I","C","A","L">>, <<"H","i","g","h">>, <<"m","o","d","e","r","a","t","e">>, <<"M","E","D","I","U","M">>, <<"l","o","w">>, <<"u","n","k","n","o","w","n">> }

OsvVulns ==
    { OsvVuln("GHSA-1", "Prototype pollution", SevText(sev), << >>, <<"4",".","1","7",".","2","1">>) :
        sev \in OsvSeverities }
    \cup { OsvVuln("GHSA-2", "", SevAbsent, <<"H","I","G","H">>, << >>),
           OsvVuln("GHSA-3", "ReDoS", SevAbsent, << >>, << >>),
           OsvVuln("GHSA-4", "DoS", SevList, << >>, << >>) }

\* an HTTP answer: the fetch rejects, the status is not 2xx, the body is not
\* JSON, or the body parses to `data`
Response(kind, data) == [kind |-> kind, data |-> data]
NoData == [form |-> "none", results |-> << >>, latest |-> << >>]
NoResponse == Response("pending", NoData)

OsvData(form, results) == [form |-> form, results |-> results, latest |-> << >>]

OsvResponses ==
    { Response("networkError", NoData), Response("notOk", NoData),
      Response("badJson", NoData),
      Response("json", OsvData("null", << >>)),
      Response("json", OsvData("object", << >>)) }
    \cup { Response("json", OsvData("object", << [vulns |-> <<v>>] >>)) : v \in OsvVulns }
    \cup { Response("json", OsvData("object",
               << [vulns |-> << >>],
                  [vulns |-> << OsvVuln("GHSA-2", "", SevAbsent, <<"H","I","G","H">>, << >>),
                                OsvVuln("GHSA-1", "Prototype pollution",
                                        SevText(<<"l","o","w">>), << >>, <<"4",".","1","7",".","2","1">>) >>] >>)) }

\* vuln.severity || vuln.database_specific?.severity
OsvSeverityOf(vuln) ==
    IF vuln.severity.kind = "text" /\ Len(vuln.severity.text) > 0
    THEN vuln.severity.text
    ELSE vuln.dbSeverity

\* the VulnerabilityInfo pushed for one vuln of the result of package pkg
FromOsv(vuln, pkg) ==
    [id |-> vuln.id,
     title |-> Or(vuln.summary, vuln.id),
     severity |-> mapOsvSeverity(OsvSeverityOf(vuln)),
     package |-> pkg.name,
     version |-> pkg.version,
     recommendation |-> IF Len(vuln.fixed) > 0
                        THEN <<"U","p","g","r","a","d","e"," ","t","o"," ">> \o vuln.fixed
                        ELSE <<"N","o"," ","f","i","x"," ","a","v","a","i","l","a","b","l","e">>,
     url |-> vuln.url]

\* the loop over data.results throws: a vuln of a result that has no package
\* at its index (pkg is undefined), or a severity that is not a text
OsvLoopThrows(pkgs, results) ==
    \E i \in 1..Len(results) :
        \E j \in 1..Len(results[i].vulns) :
            \/ i > Len(pkgs)
            \/ results[i].vulns[j].severity.kind = "list"

\* the body of the try block of checkVulnerabilities
OsvAttempt(pkgs, resp) ==
    CASE resp.kind \in {"networkError", "badJson"} -> Threw
      [] resp.kind = "notOk" -> Ok(<< >>)
      [] OTHER ->
           IF resp.data.form = "null" \/ OsvLoopThrows(pkgs, resp.data.results)
           THEN Threw
           ELSE Ok(Concat([i \in 1..Len(resp.data.results) |->
                    [j \in 1..Len(resp.data.results[i].vulns) |->
                        FromOsv(resp.data.results[i].vulns[j], pkgs[i])]]))

\* packages.map(...) into the queries of the request body
OsvQueries(pkgs) ==
    [i \in 1..Len(pkgs) |->
        [package |-> [name |-> pkgs[i].name, ecosystem |-> "npm"],
         version |-> pkgs[i].version]]

Request(url, method, body) ==
    [url |-> url, method |-> method, body |-> body, response |-> NoResponse]

\* CheckVulnerabilitiesCall without the early return for the empty list
CheckVulnerabilitiesAlwaysFetches(pkgs) ==
    /\ pc = "idle"
    /\ op' = "checkVulnerabilities"
    /\ input' = pkgs
    /\ requests' = Append(requests, Request(<<OSV_API>>, "POST", OsvQueries(pkgs)))
    /\ pc' = "osv"
    /\ UNCHANGED <<ret, outcome>>
    /\ UNCHANGED <<adapter, packages, options, onProgress, progress, delivered,
                   nDelivered, child, nSpawned, nChunks, env, locals, config>>

\* checkVulnerabilities(packages) up to its fetch
CheckVulnerabilitiesCall(pkgs) ==
    /\ pc = "idle"
    /\ op' = "checkVulnerabilities"
    /\ input' = pkgs
    /\ IF Len(pkgs) = 0
       THEN /\ ret' = << >>
            /\ outcome' = "resolved"
            /\ pc' = "done"
            /\ UNCHANGED requests
       ELSE /\ requests' = Append(requests, Request(<<OSV_API>>, "POST", OsvQueries(pkgs)))
            /\ pc' = "osv"
            /\ UNCHANGED <<ret, outcome>>
    /\ UNCHANGED <<adapter, packages, options, onProgress, progress, delivered,
                   nDelivered, child, nSpawned, nChunks, env, locals, config>>

\* the fetch of checkVulnerabilities settles and the call returns
OsvSettle ==
    /\ op = "checkVulnerabilities"
    /\ pc = "osv"
    /\ \E resp \in OsvResponses :
         LET r == Catch(OsvAttempt(input, resp), << >>)
         IN /\ requests' = [requests EXCEPT ![1].response = resp]
            /\ ret' = r.value
            /\ outcome' = IF r.threw THEN "rejected" ELSE "resolved"
    /\ pc' = "done"
    /\ UNCHANGED <<adapter, op, packages, options, onProgress, progress, delivered,
                   nDelivered, child, nSpawned, nChunks, env, locals, config, input>>

----------------------------------------------------------------------------
(* services/remote: checkUpdates *)

\* the registry document of a package: data['dist-tags']?.latest, empty when
\* the document has no such field
RegistryData(form, latest) == [form |-> form, results |-> << >>, latest |-> latest]

UpdateResponses ==
    { Response("networkError", NoData), Response("notOk", NoData),
      Response("badJson", NoData),
      Response("json", RegistryData("null", << >>)),
      Response("json", RegistryData("object", << >>)),
      Response("json", RegistryData("object", <<"4",".","1","7",".","2","1">>)),
      Response("json", RegistryData("object", <<"4",".","1","7",".","2","0">>)),
      Response("json", RegistryData("object", <<"4",".","1","8",".","0">>)) }

\* the entry reported when the lookup fails
SameVersion(pkg) ==
    [name |-> pkg.name, currentVersion |-> pkg.version,
     latestVersion |-> pkg.version, hasUpdate |-> FALSE]

\* the body of the try block of one lookup
LookupAttempt(pkg, resp) ==
    CASE resp.kind \in {"networkError", "badJson"} -> Threw
      [] resp.kind = "notOk" -> Ok(SameVersion(pkg))
      [] resp.data.form = "null" -> Threw
      [] OTHER ->
           LET latest == IF Len(resp.data.latest) = 0 THEN pkg.version
                         ELSE resp.data.latest
           IN Ok([name |-> pkg.name, currentVersion |-> pkg.version,
                  latestVersion |-> latest,
                  hasUpdate |-> latest # pkg.version /\ ~Includes(pkg.version, latest)])

\* LookupEntry without its catch clause
LookupEntryUncaught(pkg, resp) == LookupAttempt(pkg, resp)

\* the async function mapped over the packages: what its promise settles with
LookupEntry(pkg, resp) == Catch(LookupAttempt(pkg, resp), SameVersion(pkg))

\* checkUpdates(packages): packages.map starts one lookup per package
CheckUpdatesCall(pkgs) ==
    /\ pc = "idle"
    /\ op' = "checkUpdates"
    /\ input' = pkgs
    /\ requests' = [i \in 1..Len(pkgs) |->
                       Request(<<NPM_REGISTRY, "/", pkgs[i].name>>, "GET", << >>)]
    /\ pc' = "lookups"
    /\ UNCHANGED <<adapter, packages, options, onProgress, progress, delivered,
                   nDelivered, child, nSpawned, nChunks, outcome, ret, env, locals,
                   config>>

\* the fetch of one lookup settles, in any order among the lookups
LookupSettles ==
    /\ op = "checkUpdates"
    /\ pc = "lookups"
    /\ \E i \in 1..Len(requests), resp \in UpdateResponses :
         /\ requests[i].response = NoResponse
         /\ requests' = [requests EXCEPT ![i].response = resp]
    /\ UNCHANGED <<adapter, op, pc, packages, options, onProgress, progress,
                   delivered, nDelivered, child, nSpawned, nChunks, outcome, ret,
                   env, locals, config, input>>

\* Promise.all settles: with the results in input order, or with a rejection
CheckUpdatesReturn ==
    /\ op = "checkUpdates"
    /\ pc = "lookups"
    /\ \A i \in 1..Len(requests) : requests[i].response # NoResponse
    /\ LET results == [i \in 1..Len(input) |-> LookupEntry(input[i], requests[i].response)]
       IN /\ ret' = [i \in 1..Len(input) |-> results[i].value]
          /\ outcome' = IF \E i \in 1..Len(input) : results[i].threw
                        THEN "rejected" ELSE "resolved"
    /\ pc' = "done"
    /\ UNCHANGED <<adapter, op, packages, options, onProgress, progress, delivered,
                   nDelivered, child, nSpawned, nChunks, env, locals, config, input,
                   requests>>

----------------------------------------------------------------------------
(* services/remote: parseInputType *)

\* Object.entries(NPM_SITE_REGISTRY_MAP), in insertion order
NPM_SITE_REGISTRY_MAP ==
    << [domain |-> <<"n","p","m","j","s",".","c","o","m">>, registry |-> "https://registry.npmjs.org"],
       [domain |-> <<"w","w","w",".","n","p","m","j","s",".","c","o","m">>, registry |-> "https://registry.npmjs.org"],
       [domain |-> <<"n","p","m","m","i","r","r","o","r",".","c","o","m">>, registry |-> "https://registry.npmmirror.com"],
       [domain |-> <<"n","p","m",".","t","a","o","b","a","o",".","o","r","g">>, registry |-> "https://registry.npmmirror.com"],
       [domain |-> <<"y","a","r","n","p","k","g",".","c","o","m">>, registry |-> "https://registry.yarnpkg.com"] >>

LineTerminator == {"\n", "\r"}

\* domain.replace('.', '\\.') read as a regular expression: replace with a
\* string pattern escapes the first "." only, every later "." stays the
\* wildcard, written "ANY" here
DomainPattern(domain) ==
    [i \in 1..Len(domain) |->
        IF domain[i] = "." /\ i # IndexOf(domain, ".") THEN "ANY" ELSE domain[i]]

\* s starts with a text the pattern matches character by character
MatchesPrefix(s, pattern) ==
    /\ Len(s) >= Len(pattern)
    /\ \A i \in 1..Len(pattern) :
         IF pattern[i] = "ANY" THEN s[i] \notin LineTerminator ELSE s[i] = pattern[i]

StartsWith(s, prefix) ==
    Len(s) >= Len(prefix) /\ SubSeq(s, 1, Len(prefix)) = prefix

\* the length of the text matched before the group of
\* ^https?:\/\/<domain>\/package\/(.+)$, 0 when s does not match
SitePrefixLen(s, domain) ==
    LET tail == DomainPattern(domain) \o <<"/","p","a","c","k","a","g","e","/">>
        plain == <<"h","t","t","p",":","/","/">> \o tail
        secure == <<"h","t","t","p","s",":","/","/">> \o tail
        rest(k) == SubSeq(s, k + 1, Len(s))
        matches(p) == /\ MatchesPrefix(s, p)
                      /\ Len(s) > Len(p)
                      /\ \A i \in 1..Len(rest(Len(p))) : rest(Len(p))[i] \notin LineTerminator
    IN IF matches(plain) THEN Len(plain)
       ELSE IF matches(secure) THEN Len(secure)
       ELSE 0

\* /^(@[a-z0-9-~][a-z0-9-._~]*\/)?[a-z0-9-~][a-z0-9-._~]*$/i
PackageNameGrammar(s) ==
    LET bare(n) == Len(n) >= 1 /\ n[1] \in NameFirst /\ AllIn(n, NameRest)
    IN IF Len(s) >= 1 /\ s[1] = "@"
       THEN LET slash == IndexOf(s, "/")
            IN /\ slash # 0
               /\ bare(SubSeq(s, 2, slash - 1))
               /\ bare(SubSeq(s, slash + 1, Len(s)))
       ELSE bare(s)

\* `registry` is "" where the source leaves it undefined
InputType(type, value, registry) == [type |-> type, value |-> value, registry |-> registry]

parseInputType(text) ==
    LET trimmed == Trim(text)
        sites == { i \in 1..Len(NPM_SITE_REGISTRY_MAP) :
                     SitePrefixLen(trimmed, NPM_SITE_REGISTRY_MAP[i].domain) > 0 }
    IN IF sites # {}
       THEN LET first == CHOOSE i \in sites : \A j \in sites : i <= j
                site == NPM_SITE_REGISTRY_MAP[first]
            IN InputType("npm-site-url",
                         SubSeq(trimmed, SitePrefixLen(trimmed, site.domain) + 1,
                                Len(trimmed)),
                         site.registry)
       ELSE IF \/ StartsWith(trimmed, <<"h","t","t","p",":","/","/">>)
               \/ StartsWith(trimmed, <<"h","t","t","p","s",":","/","/">>)
               \/ StartsWith(trimmed, <<"g","i","t","@">>)
       THEN InputType("git-url", trimmed, "")
       ELSE IF PackageNameGrammar(trimmed)
       THEN InputType("npm-package", trimmed, "")
       ELSE InputType("git-url", trimmed, "")

\* what the caller may type
InputTexts ==
    { <<"h","t","t","p","s",":","/","/","w","w","w",".","n","p","m","j","s",".","c","o","m","/","p","a","c","k","a","g","e","/","l","o","d","a","s","h">>,
      <<" ","h","t","t","p","s",":","/","/","n","p","m","m","i","r","r","o","r",".","c","o","m","/","p","a","c","k","a","g","e","/","@","s","/","p","\n">>,
      <<"h","t","t","p",":","/","/","n","p","m",".","t","a","o","b","a","o",".","o","r","g","/","p","a","c","k","a","g","e","/","a">>,
      <<"h","t","t","p","s",":","/","/","y","a","r","n","p","k","g",".","c","o","m","/","p","a","c","k","a","g","e","/","a","/","v","/","1">>,
      <<"h","t","t","p","s",":","/","/","w","w","w",".","n","p","m","j","s","x","c","o","m","/","p","a","c","k","a","g","e","/","l","o","d","a","s","h">>,
      <<"h","t","t","p","s",":","/","/","n","p","m","j","s",".","c","o","m","/","p","a","c","k","a","g","e","/">>,
      <<"h","t","t","p","s",":","/","/","n","p","m","j","s",".","o","r","g","/","p","a","c","k","a","g","e","/","a">>,
      <<"h","t","t","p","s",":","/","/","g","i","t","h","u","b",".","c","o","m","/","o","/","r">>,
      <<"g","i","t","@","g","i","t","h","u","b",".","c","o","m",":","o","/","r",".","g","i","t">>,
      <<"s","e","e"," ","h","t","t","p","s",":","/","/","n","p","m","j","s",".","c","o","m","/","p","a","c","k","a","g","e","/","a">>,
      <<"l","o","d","a","s","h">>, <<"@","s","/","p">>, <<"L","o","_","d","a","s","h">>, <<"@","s">>, <<"a"," ","b">>, << >> }

\* parseInputType(input)
ParseInputTypeCall(text) ==
    /\ pc = "idle"
    /\ op' = "parseInputType"
    /\ input' = text
    /\ ret' = parseInputType(text)
    /\ outcome' = "resolved"
    /\ pc' = "done"
    /\ UNCHANGED <<adapter, packages, options, onProgress, progress, delivered,
                   nDelivered, child, nSpawned, nChunks, env, locals, config,
                   requests>>

----------------------------------------------------------------------------
(* services/remote: parseGitUrl *)

EndsWith(s, suffix) ==
    Len(s) >= Len(suffix) /\ SubSeq(s, Len(s) - Len(suffix) + 1, Len(s)) = suffix

DotGit == <<".","g","i","t">>

\* the group ([^\/]+?) before (?:\.git)?: lazy, so the shortest text that
\* lets the rest match, which is the segment without one trailing ".git"
\* unless that leaves nothing
LazyRepo(segment) ==
    IF EndsWith(segment, DotGit) /\ Len(segment) > Len(DotGit)
    THEN SubSeq(segment, 1, Len(segment) - Len(DotGit))
    ELSE segment

\* match[2].replace(/\.git$/, '')
StripDotGit(s) ==
    IF EndsWith(s, DotGit) THEN SubSeq(s, 1, Len(s) - Len(DotGit)) ELSE s

NoMatch == [matched |-> FALSE, owner |-> << >>, repo |-> << >>, branch |-> << >>]

\* One pattern of parseGitUrl on the text after its literal head:
\* ([^\/]+)\/([^\/]+?)(?:\.git)?(?:<tree>([^\/]+))?$ where `tree` is the
\* literal after the "/" that ends the repository segment ("tree/",
\* "-/tree/"), or empty for the patterns that allow no branch. `branch` is
\* empty where the group did not take part (undefined).
MatchAfterHead(rest, tree) ==
    LET slash == IndexOf(rest, "/")
        owner == SubSeq(rest, 1, slash - 1)
        after == SubSeq(rest, slash + 1, Len(rest))
        slash2 == IndexOf(after, "/")
        segment == IF slash2 = 0 THEN after ELSE SubSeq(after, 1, slash2 - 1)
        tail == IF slash2 = 0 THEN << >> ELSE SubSeq(after, slash2 + 1, Len(after))
        branch == SubSeq(tail, Len(tree) + 1, Len(tail))
    IN IF /\ slash > 1
          /\ Len(segment) >= 1
          /\ slash2 # 0 =>
                /\ Len(tree) > 0
                /\ StartsWith(tail, tree)
                /\ Len(branch) >= 1
                /\ IndexOf(branch, "/") = 0
       THEN [matched |-> TRUE, owner |-> owner, repo |-> LazyRepo(segment),
             branch |-> IF slash2 = 0 THEN << >> ELSE branch]
       ELSE NoMatch

\* the four patterns, in order: the literal heads they accept and their tree
GitPatterns ==
    << [heads |-> {<<"h","t","t","p",":","/","/","g","i","t","h","u","b",".","c","o","m","/">>, <<"h","t","t","p","s",":","/","/","g","i","t","h","u","b",".","c","o","m","/">>}, tree |-> <<"t","r","e","e","/">>],
       [heads |-> {<<"g","i","t","@","g","i","t","h","u","b",".","c","o","m",":">>}, tree |-> << >>],
       [heads |-> {<<"h","t","t","p",":","/","/","g","i","t","l","a","b",".","c","o","m","/">>, <<"h","t","t","p","s",":","/","/","g","i","t","l","a","b",".","c","o","m","/">>}, tree |-> <<"-","/","t","r","e","e","/">>],
       [heads |-> {<<"g","i","t","@","g","i","t","l","a","b",".","c","o","m",":">>}, tree |-> << >>] >>

\* url.match(pattern) for the k-th pattern
GitMatch(url, k) ==
    LET heads == { h \in GitPatterns[k].heads : StartsWith(url, h) }
    IN IF heads = {} THEN NoMatch
       ELSE LET head == CHOOSE h \in heads : TRUE
            IN MatchAfterHead(SubSeq(url, Len(head) + 1, Len(url)), GitPatterns[k].tree)

\* parseGitUrl(url): the RemoteRepoInfo, or a throw
parseGitUrl(url) ==
    LET hits == { k \in 1..Len(GitPatterns) : GitMatch(url, k).matched }
    IN IF hits = {} THEN Threw
       ELSE LET match == GitMatch(url, CHOOSE k \in hits : \A j \in hits : k <= j)
            IN Ok([platform |-> IF Includes(url, <<"g","i","t","l","a","b">>) THEN "gitlab" ELSE "github",
                   owner |-> match.owner,
                   repo |-> StripDotGit(match.repo),
                   branch |-> match.branch])

GitUrls ==
    { <<"h","t","t","p","s",":","/","/","g","i","t","h","u","b",".","c","o","m","/","o","/","r">>,
      <<"h","t","t","p","s",":","/","/","g","i","t","h","u","b",".","c","o","m","/","o","/","r",".","g","i","t">>,
      <<"h","t","t","p","s",":","/","/","g","i","t","h","u","b",".","c","o","m","/","o","/","r","/","t","r","e","e","/","d","e","v">>,
      <<"h","t","t","p",":","/","/","g","i","t","h","u","b",".","c","o","m","/","o","/","r",".","g","i","t","/","t","r","e","e","/","d","e","v">>,
      <<"g","i","t","@","g","i","t","h","u","b",".","c","o","m",":","o","/","r",".","g","i","t">>,
      <<"g","i","t","@","g","i","t","l","a","b",".","c","o","m",":","o","/","r">>,
      <<"h","t","t","p","s",":","/","/","g","i","t","l","a","b",".","c","o","m","/","o","/","r","/","-","/","t","r","e","e","/","m","a","i","n">>,
      <<"h","t","t","p","s",":","/","/","g","i","t","l","a","b",".","c","o","m","/","o","/","r",".","g","i","t">>,
      <<"h","t","t","p","s",":","/","/","g","i","t","h","u","b",".","c","o","m","/","g","i","t","l","a","b","h","q","/","r">>,
      <<"h","t","t","p","s",":","/","/","g","i","t","h","u","b",".","c","o","m","/","o","/","r",".","g","i","t",".","g","i","t">>,
      <<"h","t","t","p","s",":","/","/","g","i","t","h","u","b",".","c","o","m","/","o","/",".","g","i","t">>,
      <<"h","t","t","p","s",":","/","/","b","i","t","b","u","c","k","e","t",".","o","r","g","/","o","/","r">>,
      <<"h","t","t","p","s",":","/","/","g","i","t","h","u","b",".","c","o","m","/","o">>,
      <<"h","t","t","p","s",":","/","/","g","i","t","h","u","b",".","c","o","m","/","o","/","r","/","b","l","o","b","/","x">>,
      <<"h","t","t","p","s",":","/","/","g","i","t","h","u","b",".","c","o","m","/","o","/","r","/","t","r","e","e","/","a","/","b">>,
      <<"g","i","t","@","g","i","t","h","u","b",".","c","o","m",":","o","/","r","/","t","r","e","e","/","d","e","v">>,
      <<"h","t","t","p","s",":","/","/","g","i","t","l","a","b",".","c","o","m","/","o","/","r","/","t","r","e","e","/","m","a","i","n">>,
      <<"l","o","d","a","s","h">> }

\* parseGitUrl(url)
ParseGitUrlCall(url) ==
    /\ pc = "idle"
    /\ op' = "parseGitUrl"
    /\ input' = url
    /\ LET r == parseGitUrl(url)
       IN /\ ret' = r.value
          /\ outcome' = IF r.threw THEN "rejected" ELSE "resolved"
    /\ pc' = "done"
    /\ UNCHANGED <<adapter, packages, options, onProgress, progress, delivered,
                   nDelivered, child, nSpawned, nChunks, env, locals, config,
                   requests>>

----------------------------------------------------------------------------
(* services/remote: extractPackages *)

\* the class of /^[\^~>=<]/
RangeOperators == {"^", "~", ">", "=", "<"}

\* version.replace(/^[\^~>=<]/, ''): the pattern has no quantifier and takes
\* one character
StripOperator(version) ==
    IF Len(version) > 0 /\ version[1] \in RangeOperators THEN Tail(version)
    ELSE version

\* Object.entries of a dependencies object: its entries in order
Declared(name, version) == [name |-> name, version |-> version]

DependencyMaps ==
    { << >>,
      << Declared("lodash", <<"^","4",".","1","7",".","2","1">>) >>,
      << Declared("a", <<"~","1",".","0",".","0">>), Declared("b", <<"1",".","2",".","3">>) >>,
      << Declared("c", <<">","=","1",".","0",".","0">>) >>,
      << Declared("d", <<"<","2",".","0",".","0">>), Declared("e", <<"*">>), Declared("f", << >>) >> }

extractPackages(dependencies, devDependencies) ==
    [i \in 1..Len(dependencies) |->
        [name |-> dependencies[i].name,
         version |-> StripOperator(dependencies[i].version),
         isDev |-> FALSE]]
    \o [i \in 1..Len(devDependencies) |->
        [name |-> devDependencies[i].name,
         version |-> StripOperator(devDependencies[i].version),
         isDev |-> TRUE]]

\* extractPackages(dependencies, devDependencies)
ExtractPackagesCall(deps, devDeps) ==
    /\ pc = "idle"
    /\ op' = "extractPackages"
    /\ input' = [dependencies |-> deps, devDependencies |-> devDeps]
    /\ ret' = extractPackages(deps, devDeps)
    /\ outcome' = "resolved"
    /\ pc' = "done"
    /\ UNCHANGED <<adapter, packages, options, onProgress, progress, delivered,
                   nDelivered, child, nSpawned, nChunks, env, locals, config,
                   requests>>

----------------------------------------------------------------------------
(* services/remote: parseNpmLockFile *)

NodeModules == <<"n","o","d","e","_","m","o","d","u","l","e","s","/">>

\* position of the first occurrence of the text w in s, 0 when there is none
IndexOfText(s, w) ==
    LET hits == { i \in 1..(Len(s) - Len(w) + 1) : SubSeq(s, i, i + Len(w) - 1) = w }
    IN IF hits = {} THEN 0 ELSE CHOOSE i \in hits : \A j \in hits : i <= j

\* s.replace(w, '') with a string pattern: the first occurrence goes
RemoveFirst(s, w) ==
    LET at == IndexOfText(s, w)
    IN IF at = 0 THEN s
       ELSE SubSeq(s, 1, at - 1) \o SubSeq(s, at + Len(w), Len(s))

\* s.split(sep)
RECURSIVE Split(_, _)
Split(s, sep) ==
    LET at == IndexOfText(s, sep)
    IN IF at = 0 THEN <<s>>
       ELSE <<SubSeq(s, 1, at - 1)>> \o Split(SubSeq(s, at + Len(sep), Len(s)), sep)

\* One member of a JSON object as the text has it: a key and, as value,
\* null or an object with a `version` ("" when it has none).
Member(key, form, version) == [key |-> key, form |-> form, version |-> version]

\* JSON.parse of an object: a key written twice is kept once, at the place of
\* its first occurrence and with the value of its last
JsonObject(members) ==
    LET firsts == { i \in 1..Len(members) :
                      \A j \in 1..(i - 1) : members[j].key # members[i].key }
        last(i) == CHOOSE j \in i..Len(members) :
                       /\ members[j].key = members[i].key
                       /\ \A k \in (j + 1)..Len(members) : members[k].key # members[i].key
        pick(seen) == CHOOSE i \in firsts : Cardinality({ j \in firsts : j < i }) = seen
    IN [n \in 1..Cardinality(firsts) |-> members[last(pick(n - 1))]]

\* the parts the loop over lock.packages splits a path into
PathParts(path) == Split(RemoveFirst(path, NodeModules), NodeModules)

\* the loop pushes every path that passes the prefix test, whatever its depth
IsRootChildAnyDepth(path) ==
    ~(Len(path) = 0 \/ ~StartsWith(path, NodeModules))

\* the paths the loop over lock.packages pushes a child for
IsRootChild(path) ==
    /\ ~(Len(path) = 0 \/ ~StartsWith(path, NodeModules))
    /\ Len(PathParts(path)) = 1

\* the child pushed for one entry of lock.packages, if any
NpmLockChild(path, info) ==
    IF IsRootChild(path)
    THEN << [name |-> PathParts(path)[1], version |-> Or(info.version, "0.0.0"),
             children |-> << >>] >>
    ELSE << >>

\* the child pushed for one entry of lock.dependencies (lockfileVersion 1)
NpmDepChild(name, info) ==
    << [name |-> name, version |-> Or(info.version, "0.0.0"), children |-> << >>] >>

\* package-lock.json: text that is not JSON ("garbage"), `null`, or an object
\* with the members of `packages` and `dependencies` as written
NpmLock(form, name, version, pkgs, deps) ==
    [form |-> form, name |-> name, version |-> version, packages |-> pkgs,
     dependencies |-> deps]

\* the body of the try block of parseNpmLockFile
NpmLockAttempt(lock) ==
    IF lock.form \in {"garbage", "null"} THEN Threw
    ELSE LET pkgs == JsonObject(lock.packages)
             deps == JsonObject(lock.dependencies)
             read == IF Len(pkgs) > 0 THEN pkgs ELSE deps
         IN IF \E i \in 1..Len(read) :
                 /\ read[i].form = "null"
                 /\ Len(pkgs) > 0 => IsRootChild(read[i].key)
            THEN Threw
            ELSE Ok([name |-> Or(lock.name, "root"),
                     version |-> Or(lock.version, "0.0.0"),
                     children |->
                         Concat([i \in 1..Len(read) |->
                             IF Len(pkgs) > 0
                             THEN NpmLockChild(read[i].key, read[i])
                             ELSE NpmDepChild(read[i].key, read[i])])])

\* parseNpmLockFile without its catch clause
parseNpmLockFileUncaught(lock) == NpmLockAttempt(lock)

parseNpmLockFile(lock) == Catch(NpmLockAttempt(lock), EmptyRoot)

PathA == NodeModules \o <<"a">>
PathScoped == NodeModules \o <<"@","s","/","p">>
PathNested == NodeModules \o <<"a","/">> \o NodeModules \o <<"b">>
PathWorkspace == <<"p","a","c","k","a","g","e","s","/","x">>
PathWorkspaceDep == <<"p","a","c","k","a","g","e","s","/","x","/">> \o NodeModules \o <<"y">>

NpmLocks ==
    { NpmLock("garbage", "", "", << >>, << >>),
      NpmLock("null", "", "", << >>, << >>),
      NpmLock("object", "", "", << >>, << >>),
      NpmLock("object", "app", "1.0.0",
              << Member(<< >>, "object", "1.0.0"),
                 Member(PathA, "object", "1.0.0"),
                 Member(PathNested, "object", "2.0.0"),
                 Member(PathScoped, "object", ""),
                 Member(PathWorkspace, "object", "0.1.0"),
                 Member(PathWorkspaceDep, "object", "3.0.0") >>,
              << Member(<<"z">>, "object", "9.0.0") >>),
      NpmLock("object", "app", "",
              << Member(PathA, "object", "1.0.0"),
                 Member(PathScoped, "object", "2.0.0"),
                 Member(PathA, "object", "1.1.0") >>,
              << >>),
      NpmLock("object", "app", "1.0.0",
              << Member(PathA, "object", "1.0.0"),
                 Member(PathScoped, "null", "") >>,
              << >>),
      NpmLock("object", "", "1.0.0", << >>,
              << Member(<<"a">>, "object", "1.0.0"), Member(<<"b">>, "object", "") >>) }

----------------------------------------------------------------------------
(* services/remote: parseYarnLockFile *)

\* children.push guarded by the `seen` set: a name is kept once, with the
\* version of its first entry
RECURSIVE FirstOccurrences(_)
FirstOccurrences(entries) ==
    IF Len(entries) = 0 THEN << >>
    ELSE LET front == FirstOccurrences(SubSeq(entries, 1, Len(entries) - 1))
             e == entries[Len(entries)]
         IN IF \E i \in 1..Len(front) : front[i].name = e.name
            THEN front
            ELSE Append(front, [name |-> e.name, version |-> e.version,
                                children |-> << >>])

\* [^"]+?"?:\s*  up to the end of the line, on the text after the first @
YarnSpecTail(rest) ==
    LET t == TrimEnd(rest)
        body == SubSeq(t, 1, Len(t) - 1)
        spec == IF Len(body) > 0 /\ body[Len(body)] = "\""
                THEN SubSeq(body, 1, Len(body) - 1) ELSE body
    IN /\ Len(t) > 0 /\ t[Len(t)] = ":"
       /\ \/ Len(body) > 0 /\ IndexOf(body, "\"") = 0
          \/ Len(spec) > 0 /\ IndexOf(spec, "\"") = 0 /\ Len(spec) < Len(body)

\* ^"?([^@\s]+)@  on a header line from position `from`: the name, << >> when
\* the pattern fails there
YarnNameFrom(header, from) ==
    LET s == SubSeq(header, from, Len(header))
        at == IndexOf(s, "@")
        name == SubSeq(s, 1, at - 1)
    IN IF at > 1 /\ AllIn(name, {s[i] : i \in 1..Len(s)} \ Whitespace)
          /\ YarnSpecTail(SubSeq(s, at + 1, Len(s)))
       THEN name ELSE << >>

\* group 1 of the pattern on a header line: the optional quote is taken when
\* the rest matches with it, and left to the name otherwise
YarnName(header) ==
    IF Len(header) > 0 /\ header[1] = "\"" /\ Len(YarnNameFrom(header, 2)) > 0
    THEN YarnNameFrom(header, 2)
    ELSE YarnNameFrom(header, 1)

\* One block of yarn.lock: its header line and the quoted text of the
\* `version` line under it (<< >> when that line is not there).
YarnBlock(header, version) == [header |-> header, version |-> version]

\* the matches of the pattern, in the order of the text
YarnMatches(blocks) ==
    Concat([i \in 1..Len(blocks) |->
        IF Len(YarnName(blocks[i].header)) > 0 /\ Len(blocks[i].version) > 0
        THEN << [name |-> YarnName(blocks[i].header), version |-> blocks[i].version] >>
        ELSE << >>])

parseYarnLockFile(blocks) ==
    Ok([name |-> "root", version |-> "0.0.0",
        children |-> FirstOccurrences(YarnMatches(blocks))])

YarnLocks ==
    { << >>,
      << YarnBlock(<<"#"," ","y","a","r","n"," ","l","o","c","k","f","i","l","e"," ","v","1">>, << >>) >>,
      << YarnBlock(<<"a","@","^","1",".","0",".","0",":">>, <<"1",".","0",".","0">>),
         YarnBlock(<<"\"","b","@","^","2",".","0",".","0","\"",","," ","\"","b","@","^","2",".","1",".","0","\"",":">>, <<"2",".","1",".","0">>),
         YarnBlock(<<"a","@","^","1",".","1",".","0",":">>, <<"1",".","1",".","0">>) >>,
      << YarnBlock(<<"a","@","^","1",".","0",".","0",":">>, <<"1",".","0",".","0">>),
         YarnBlock(<<"b","@","^","2",".","0",".","0">>, <<"2",".","0",".","0">>),
         YarnBlock(<<"c","@","^","3",".","0",".","0",":">>, << >>),
         YarnBlock(<<"d","@","^","4",".","0",".","0",":">>, <<"4",".","0",".","0">>) >>,
      << YarnBlock(<<"\"","@","s","/","p","@","^","1",".","0",".","0","\"",":">>, <<"1",".","0",".","0">>),
         YarnBlock(<<"\"","@","t","/","q","@","^","2",".","0",".","0","\"",":">>, <<"2",".","0",".","0">>) >> }

----------------------------------------------------------------------------
(* services/remote: parsePnpmLockFile *)

\* [@\w\-./]
PnpmNameChar == Lower \cup Upper \cup Digit \cup {"_", "@", "-", ".", "/"}

\* the last position of the run of characters of cls that starts at i
\* (i - 1 when the run is empty)
ClassRunEnd(s, i, cls) ==
    LET stops == { j \in i..Len(s) : s[j] \notin cls }
    IN IF stops = {} THEN Len(s)
       ELSE (CHOOSE j \in stops : \A k \in stops : j <= k) - 1

\* \d+\.\d+\.\d+ at position i: the position of its last digit, 0 on failure
SemverEnd(s, i) ==
    LET e1 == ClassRunEnd(s, i, Digit)
        e2 == ClassRunEnd(s, e1 + 2, Digit)
        e3 == ClassRunEnd(s, e2 + 2, Digit)
        isDot(j) == j <= Len(s) /\ s[j] = "."
    IN IF /\ e1 >= i /\ isDot(e1 + 1)
          /\ e2 >= e1 + 2 /\ isDot(e2 + 1)
          /\ e3 >= e2 + 2
       THEN e3 ELSE 0

\* ([@\w\-./]+)@(\d+\.\d+\.\d+[^'":]*) at position i: the name takes the
\* longest text that leaves an @ and a version after it
PnpmEntryAt(s, i) ==
    LET run == ClassRunEnd(s, i, PnpmNameChar)
        ats == { p \in (i + 1)..run : s[p] = "@" /\ SemverEnd(s, p + 1) > 0 }
        at == CHOOSE p \in ats : \A q \in ats : q <= p
        stop == ClassRunEnd(s, SemverEnd(s, at + 1) + 1,
                       {s[j] : j \in 1..Len(s)} \ {"'", "\"", ":"})
    IN IF ats = {} THEN << >>
       ELSE << [name |-> SubSeq(s, i, at - 1), version |-> SubSeq(s, at + 1, stop)] >>

\* line.match(/^\s+['"]?\/?([@\w\-./]+)@(\d+\.\d+\.\d+[^'":]*)/)
PnpmEntry(line) ==
    LET ws == ClassRunEnd(line, 1, Whitespace)
        q == IF ws + 1 <= Len(line) /\ line[ws + 1] \in {"'", "\""} THEN ws + 2 ELSE ws + 1
        slash == q <= Len(line) /\ line[q] = "/"
    IN IF ws < 1 THEN << >>
       ELSE IF slash /\ Len(PnpmEntryAt(line, q + 1)) > 0 THEN PnpmEntryAt(line, q + 1)
       ELSE PnpmEntryAt(line, q)

PackagesKey == <<"p","a","c","k","a","g","e","s",":">>

\* the loop over the lines of pnpm-lock.yaml, from line i on
RECURSIVE PnpmScan(_, _, _)
PnpmScan(lines, i, inPackages) ==
    IF i > Len(lines) THEN << >>
    ELSE IF StartsWith(lines[i], PackagesKey) THEN PnpmScan(lines, i + 1, TRUE)
    ELSE IF inPackages /\ Len(lines[i]) > 0 /\ lines[i][1] \in Lower \cup Upper THEN << >>
    ELSE IF inPackages THEN PnpmEntry(lines[i]) \o PnpmScan(lines, i + 1, inPackages)
    ELSE PnpmScan(lines, i + 1, inPackages)

parsePnpmLockFile(lines) ==
    Ok([name |-> "root", version |-> "0.0.0",
        children |-> FirstOccurrences(PnpmScan(lines, 1, FALSE))])

PnpmLocks ==
    { << >>,
      << <<"l","o","c","k","f","i","l","e","V","e","r","s","i","o","n",":"," ","'","6",".","0","'">>, <<" "," ","/","x","@","1",".","0",".","0",":">> >>,
      << <<"l","o","c","k","f","i","l","e","V","e","r","s","i","o","n",":"," ","'","6",".","0","'">>, <<"p","a","c","k","a","g","e","s",":">>, <<" "," ","/","a","@","1",".","0",".","0",":">>,
         <<" "," "," "," ","r","e","s","o","l","u","t","i","o","n",":"," ","s","h","a","5","1","2">>, <<" "," ","/","@","s","/","p","@","2",".","0",".","0","(","a","@","1",".","0",".","0",")",":">>,
         <<" "," ","a","@","1",".","1",".","0",":">>, <<" "," ","'","b","@","3",".","0",".","0","'",":">>, <<" "," ","c","@","l","a","t","e","s","t",":">>, << >>,
         <<"s","n","a","p","s","h","o","t","s",":">>, <<" "," ","d","@","4",".","0",".","0",":">> >>,
      << <<"p","a","c","k","a","g","e","s",":">>, <<" "," ","/","a","/","1",".","0",".","0",":">>, <<" "," ","\"","@","s","/","p","@","2",".","0",".","0","-","r","c",".","1","\"",":">>, <<"a","@","1",".","0",".","0",":">> >>,
      << <<"p","a","c","k","a","g","e","s",":">>, <<" "," ","/","@","1",".","2",".","3",":">>, <<" ","a","@","1",".","0",".","0","@","2",".","0",".","0",":">> >> }

----------------------------------------------------------------------------
(* services/remote: parseLockFile *)

LockFileTypes == {"npm", "yarn", "pnpm"}

\* A lock file: its content in the shape its own grammar gives it, and the
\* `type` argument ("other" for a value outside the three).
LockFile(type, content) == [type |-> type, content |-> content]

LockFiles ==
    { LockFile("npm", c) : c \in NpmLocks }
        \cup { LockFile("yarn", c) : c \in YarnLocks }
        \cup { LockFile("pnpm", c) : c \in PnpmLocks }
        \cup { LockFile("other", << >>) }

parseLockFile(content, type) ==
    CASE type = "npm" -> parseNpmLockFile(content)
      [] type = "yarn" -> parseYarnLockFile(content)
      [] type = "pnpm" -> parsePnpmLockFile(content)
      [] OTHER -> Ok(EmptyRoot)

\* parseLockFile(content, type)
ParseLockFileCall(file) ==
    /\ pc = "idle"
    /\ op' = "parseLockFile"
    /\ input' = file
    /\ ret' = parseLockFile(file.content, file.type).value
    /\ outcome' = IF parseLockFile(file.content, file.type).threw
                  THEN "rejected" ELSE "resolved"
    /\ pc' = "done"
    /\ UNCHANGED <<adapter, packages, options, onProgress, progress, delivered,
                   nDelivered, child, nSpawned, nChunks, env, locals, config,
                   requests>>

(* services/remote: fetchRepoFile *)

\* What a file fetch gives: null, or the text of the file. The text is
\* abstracted to the document it holds (`doc` has it as its one element); the
\* empty text '' is told apart because the callers test the text for
\* truthiness.
Null == [isNull |-> TRUE, empty |-> TRUE, doc |-> << >>]
EmptyText == [isNull |-> FALSE, empty |-> TRUE, doc |-> << >>]
Text(doc) == [isNull |-> FALSE, empty |-> FALSE, doc |-> <<doc>>]

\* RemoteRepoInfo
RepoInfo(platform, owner, repo, branch) ==
    [platform |-> platform, owner |-> owner, repo |-> repo, branch |-> branch]

\* branch || 'HEAD'
RefOf(branch) == IF Len(branch) = 0 THEN <<"H","E","A","D">> ELSE branch

\* the URL fetchGitHubFile builds, as the parts of its template
GitHubFileUrl(owner, repo, path, branch) ==
    <<"https://api.github.com/repos/", owner, "/", repo, "/contents/", path,
      "?ref=", RefOf(branch)>>

\* the URL fetchGitLabFile builds; encodeURIComponent turns the "/" between
\* owner and repo into %2F and leaves the other sample texts as they are
GitLabFileUrl(owner, repo, path, branch) ==
    <<"https://gitlab.com/api/v4/projects/", owner, "%2F", repo,
      "/repository/files/", path, "/raw?ref=", RefOf(branch)>>

\* the platform test of fetchRepoFile
FileUrl(repoInfo, filePath) ==
    IF repoInfo.platform = "github"
    THEN GitHubFileUrl(repoInfo.owner, repoInfo.repo, filePath, repoInfo.branch)
    ELSE GitLabFileUrl(repoInfo.owner, repoInfo.repo, filePath, repoInfo.branch)

\* The try block of fetchGitHubFile and fetchGitLabFile: `await fetch` throws,
\* or the block returns null, or it returns the promise of response.text()
\* without awaiting it.
FetchFileAttempt(resp) ==
    CASE resp.kind = "networkError" -> Threw
      [] resp.kind = "notOk" -> Ok([promise |-> FALSE])
      [] OTHER -> Ok([promise |-> TRUE])

\* What the promise of fetchRepoFile settles with. The returned promise of
\* response.text() settles after the try block was left, so its rejection is
\* the rejection of the call.
FetchFile(resp) ==
    LET r == Catch(FetchFileAttempt(resp), [promise |-> FALSE])
    IN IF ~r.value.promise THEN Ok(Null)
       ELSE IF resp.kind = "bodyError" THEN Threw
       ELSE Ok(resp.data)

\* the answers to a file fetch: the fetch rejects, the status is not 2xx, the
\* body cannot be read, or the body is the text
FileResponses(docs) ==
    { Response("networkError", Null), Response("notOk", Null),
      Response("bodyError", Null), Response("text", EmptyText) }
        \cup { Response("text", Text(d)) : d \in docs }

RepoInfos ==
    { RepoInfo("github", <<"o">>, <<"r">>, << >>),
      RepoInfo("github", <<"o">>, <<"r">>, <<"d","e","v">>),
      RepoInfo("gitlab", <<"o">>, <<"r">>, << >>),
      RepoInfo("gitlab", <<"g","r","p">>, <<"l","i","b">>, <<"m","a","i","n">>) }

FilePaths == {"package.json", "pnpm-lock.yaml", "yarn.lock", "package-lock.json"}

\* fetchRepoFile(repoInfo, filePath) up to its fetch
FetchRepoFileCall(repoInfo, filePath) ==
    /\ pc = "idle"
    /\ op' = "fetchRepoFile"
    /\ input' = [repoInfo |-> repoInfo, filePath |-> filePath]
    /\ requests' = << Request(FileUrl(repoInfo, filePath), "GET", << >>) >>
    /\ pc' = "fetch"
    /\ UNCHANGED <<adapter, packages, options, onProgress, progress, delivered,
                   nDelivered, child, nSpawned, nChunks, outcome, ret, env, locals,
                   config>>

\* the HTTP exchange ends and the call settles
FetchRepoFileSettle ==
    /\ op = "fetchRepoFile"
    /\ pc = "fetch"
    /\ \E resp \in FileResponses({"file"}) :
         /\ requests' = [requests EXCEPT ![1].response = resp]
         /\ ret' = FetchFile(resp).value
         /\ outcome' = IF FetchFile(resp).threw THEN "rejected" ELSE "resolved"
    /\ pc' = "done"
    /\ UNCHANGED <<adapter, op, packages, options, onProgress, progress, delivered,
                   nDelivered, child, nSpawned, nChunks, env, locals, config, input>>

----------------------------------------------------------------------------
(* services/remote: analyzeRemoteRepo *)

\* packages.slice(0, 50): the packages handed to the two checkers
PackagesForCheckCap == 50

\* encodeURIComponent on the characters of the sample names
encodeURIComponent(s) ==
    Concat([i \in 1..Len(s) |->
        CASE s[i] = "@" -> <<"%","4","0">>
          [] s[i] = "/" -> <<"%","2","F">>
          [] s[i] = " " -> <<"%","2","0">>
          [] OTHER -> <<s[i]>>])

\* package.json: text that is not JSON ("garbage"), `null`, or an object with
\* its two dependency maps (empty where the manifest has none)
Manifest(form, deps, devDeps) ==
    [form |-> form, dependencies |-> deps, devDependencies |-> devDeps]

parsePackageJson(doc) ==
    IF doc.form = "object"
    THEN [dependencies |-> doc.dependencies, devDependencies |-> doc.devDependencies]
    ELSE [dependencies |-> << >>, devDependencies |-> << >>]

\* n declared dependencies with the names p1, p2, ...
ManyDeclared(n) ==
    [i \in 1..n |-> Declared("p" \o ToString(i), <<"^","1",".","0",".","0">>)]

Manifests ==
    { Manifest("garbage", << >>, << >>),
      Manifest("null", << >>, << >>),
      Manifest("object", << >>, << >>),
      Manifest("object", << Declared("lodash", <<"^","4",".","1","7",".","2","0">>) >>,
               << Declared("qs", <<">","=","6",".","5",".","0">>) >>),
      Manifest("object", ManyDeclared(PackagesForCheckCap - 1),
               << Declared("a", <<"~","1",".","0",".","0">>), Declared("b", <<"1",".","2",".","3">>) >>),
      Manifest("object", ManyDeclared(PackagesForCheckCap + 1), << >>) }

\* The registry document of a package: `null`, or an object with its name,
\* data['dist-tags']?.latest (empty when it has none) and the dependency
\* maps of data.versions?.[latest] (hasLatest: there is such an entry).
PackageDoc(form, name, latest, hasLatest, deps, devDeps) ==
    [form |-> form, name |-> name, latest |-> latest, hasLatest |-> hasLatest,
     dependencies |-> deps, devDependencies |-> devDeps]

PackageDocs ==
    { PackageDoc("null", "", "", FALSE, << >>, << >>),
      PackageDoc("object", "", "", FALSE, << >>, << >>),
      PackageDoc("object", "lodash", "4.17.21", TRUE, << >>, << >>),
      PackageDoc("object", "express", "4.18.2", FALSE,
                 << Declared("qs", <<"6",".","1","1",".","0">>) >>, << >>),
      PackageDoc("object", "express", "4.18.2", TRUE,
                 << Declared("qs", <<"6",".","1","1",".","0">>), Declared("lodash", <<"^","4",".","1","7",".","2","0">>) >>,
                 << Declared("mocha", <<"^","1","0",".","0",".","0">>) >>),
      PackageDoc("object", "big", "1.0.0", TRUE,
                 ManyDeclared(PackagesForCheckCap + 1),
                 << Declared("mocha", <<"^","1","0",".","0",".","0">>) >>) }

\* the answers of the registry to fetchNpmPackageInfo
PackageInfoResponses ==
    { Response("networkError", << >>), Response("notOk", << >>),
      Response("badJson", << >>) }
        \cup { Response("json", <<d>>) : d \in PackageDocs }

\* fetchNpmPackageInfo once its fetch has settled: nothing in it is caught
fetchNpmPackageInfo(resp) ==
    IF resp.kind # "json" THEN Threw
    ELSE LET data == resp.data[1]
         IN IF data.form = "null" THEN Threw
            ELSE Ok([meta |-> [name |-> data.name, version |-> Or(data.latest, "0.0.0")],
                     dependencies |-> IF data.hasLatest THEN data.dependencies ELSE << >>,
                     devDependencies |-> IF data.hasLatest THEN data.devDependencies
                                         ELSE << >>])

\* the local variables of one analysis; an optional value is a sequence of
\* no or one element, an optional text is "" when undefined
NoAnalysis ==
    [source |-> "", repoInfo |-> << >>, packageMeta |-> << >>, packages |-> << >>,
     dependencyTree |-> << >>, lockFileType |-> "", probe |-> 0]

\* packagesForCheck without slice(0, 50)
packagesForCheckUncapped(pkgs) ==
    [i \in 1..Len(pkgs) |-> Pkg(pkgs[i].name, pkgs[i].version)]

\* packages.slice(0, 50).map((p) => ({ name: p.name, version: p.version }))
packagesForCheck(pkgs) ==
    [i \in 1..Min(Len(pkgs), PackagesForCheckCap) |-> Pkg(pkgs[i].name, pkgs[i].version)]

\* The requests Promise.all([checkVulnerabilities(p), checkUpdates(p)]) has
\* sent when it starts to wait: the OSV query unless p is empty, then one
\* registry lookup for each package.
CheckRequests(pkgs) ==
    (IF Len(pkgs) = 0 THEN << >>
     ELSE << Request(<<OSV_API>>, "POST", OsvQueries(pkgs)) >>)
    \o [i \in 1..Len(pkgs) |->
           Request(<<NPM_REGISTRY, "/", pkgs[i].name>>, "GET", << >>)]

\* OneLevelTree without filter((p) => !p.isDev)
OneLevelTreeWithDev(meta, pkgs) ==
    [name |-> meta.name, version |-> meta.version,
     children |-> [i \in 1..Len(pkgs) |->
                     [name |-> pkgs[i].name, version |-> pkgs[i].version,
                      children |-> << >>]]]

\* the one-level tree analyzeNpmPackage builds from the non-dev packages
OneLevelTree(meta, pkgs) ==
    [name |-> meta.name, version |-> meta.version,
     children |-> Concat([i \in 1..Len(pkgs) |->
                     IF pkgs[i].isDev THEN << >>
                     ELSE << [name |-> pkgs[i].name, version |-> pkgs[i].version,
                              children |-> << >>] >>])]

\* the lock files detectLockFileType tries, in its order
LockProbes ==
    << [path |-> "pnpm-lock.yaml", type |-> "pnpm"],
       [path |-> "yarn.lock", type |-> "yarn"],
       [path |-> "package-lock.json", type |-> "npm"] >>

\* the inputs and branches of the sample analyses
AnalysisInputs ==
    { <<"l","o","d","a","s","h">>, <<"@","s","/","p">>, <<" ","h","t","t","p","s",":","/","/","n","p","m","m","i","r","r","o","r",".","c","o","m","/","p","a","c","k","a","g","e","/","@","s","/","p","\n">>,
      <<"h","t","t","p","s",":","/","/","g","i","t","h","u","b",".","c","o","m","/","o","/","r">>, <<"h","t","t","p","s",":","/","/","g","i","t","l","a","b",".","c","o","m","/","o","/","r","/","-","/","t","r","e","e","/","m","a","i","n">>,
      <<"g","i","t","@","g","i","t","h","u","b",".","c","o","m",":","o","/","r",".","g","i","t">>, <<"h","t","t","p","s",":","/","/","b","i","t","b","u","c","k","e","t",".","o","r","g","/","o","/","r">>, <<"a"," ","b">> }

Branches == { << >>, <<"d","e","v">> }

\* analyzeRemoteRepo(input, branch) up to its first fetch
AnalyzeCall(text, branch) ==
    /\ pc = "idle"
    /\ op' = "analyzeRemoteRepo"
    /\ input' = [input |-> text, branch |-> branch]
    /\ LET parsed == parseInputType(text)
           repo == parseGitUrl(parsed.value)
           repoInfo == [repo.value EXCEPT !.branch = IF Len(branch) > 0 THEN branch ELSE @]
       IN IF parsed.type \in {"npm-package", "npm-site-url"}
          THEN /\ requests' = << Request(<<Or(parsed.registry, NPM_REGISTRY), "/",
                                           encodeURIComponent(parsed.value)>>,
                                         "GET", << >>) >>
               /\ locals' = [NoAnalysis EXCEPT !.source = "npm"]
               /\ pc' = "registry"
               /\ UNCHANGED <<ret, outcome>>
          ELSE IF repo.threw
          THEN /\ locals' = [NoAnalysis EXCEPT !.source = "git"]
               /\ ret' = << >>
               /\ outcome' = "rejected"
               /\ pc' = "done"
               /\ UNCHANGED requests
          ELSE /\ requests' = << Request(FileUrl(repoInfo, "package.json"), "GET", << >>) >>
               /\ locals' = [NoAnalysis EXCEPT !.source = "git", !.repoInfo = <<repoInfo>>]
               /\ pc' = "manifest"
               /\ UNCHANGED <<ret, outcome>>
    /\ UNCHANGED <<adapter, packages, options, onProgress, progress, delivered,
                   nDelivered, child, nSpawned, nChunks, env, config>>

\* analyzeNpmPackage: fetchNpmPackageInfo settles; on success the tree is
\* built and the two checkers are started
RegistrySettle ==
    /\ op = "analyzeRemoteRepo"
    /\ pc = "registry"
    /\ \E resp \in PackageInfoResponses :
         LET info == fetchNpmPackageInfo(resp)
             pkgs == extractPackages(info.value.dependencies, info.value.devDependencies)
         IN IF info.threw
            THEN /\ requests' = [requests EXCEPT ![1].response = resp]
                 /\ ret' = << >>
                 /\ outcome' = "rejected"
                 /\ pc' = "done"
                 /\ UNCHANGED locals
            ELSE /\ requests' = [requests EXCEPT ![1].response = resp]
                                    \o CheckRequests(packagesForCheck(pkgs))
                 /\ locals' = [locals EXCEPT
                                 !.packageMeta = <<info.value.meta>>,
                                 !.packages = pkgs,
                                 !.dependencyTree = <<OneLevelTree(info.value.meta, pkgs)>>]
                 /\ pc' = "checks"
                 /\ UNCHANGED <<ret, outcome>>
    /\ UNCHANGED <<adapter, op, packages, options, onProgress, progress, delivered,
                   nDelivered, child, nSpawned, nChunks, env, config, input>>

\* ManifestSettle without `throw new Error('package.json not found ...')`:
\* a missing manifest is read as an empty one
ManifestSettleDegraded ==
    /\ op = "analyzeRemoteRepo"
    /\ pc = "manifest"
    /\ \E resp \in FileResponses(Manifests) :
         LET file == FetchFile(resp)
             manifest == IF file.value.empty THEN parsePackageJson(Manifest("null", << >>, << >>))
                         ELSE parsePackageJson(file.value.doc[1])
         IN IF file.threw
            THEN /\ requests' = [requests EXCEPT ![1].response = resp]
                 /\ ret' = << >>
                 /\ outcome' = "rejected"
                 /\ pc' = "done"
                 /\ UNCHANGED locals
            ELSE /\ requests' = [requests EXCEPT ![1].response = resp]
                        \o << Request(FileUrl(locals.repoInfo[1], LockProbes[1].path),
                                      "GET", << >>) >>
                 /\ locals' = [locals EXCEPT
                                 !.packages = extractPackages(manifest.dependencies,
                                                              manifest.devDependencies),
                                 !.probe = 1]
                 /\ pc' = "lock"
                 /\ UNCHANGED <<ret, outcome>>
    /\ UNCHANGED <<adapter, op, packages, options, onProgress, progress, delivered,
                   nDelivered, child, nSpawned, nChunks, env, config, input>>

\* analyzeGitRepo: the fetch of package.json settles; without a manifest the
\* call throws, with one the first lock file is asked for
ManifestSettle ==
    /\ op = "analyzeRemoteRepo"
    /\ pc = "manifest"
    /\ \E resp \in FileResponses(Manifests) :
         LET file == FetchFile(resp)
             manifest == parsePackageJson(file.value.doc[1])
         IN IF file.threw \/ file.value.empty
            THEN /\ requests' = [requests EXCEPT ![1].response = resp]
                 /\ ret' = << >>
                 /\ outcome' = "rejected"
                 /\ pc' = "done"
                 /\ UNCHANGED locals
            ELSE /\ requests' = [requests EXCEPT ![1].response = resp]
                        \o << Request(FileUrl(locals.repoInfo[1], LockProbes[1].path),
                                      "GET", << >>) >>
                 /\ locals' = [locals EXCEPT
                                 !.packages = extractPackages(manifest.dependencies,
                                                              manifest.devDependencies),
                                 !.probe = 1]
                 /\ pc' = "lock"
                 /\ UNCHANGED <<ret, outcome>>
    /\ UNCHANGED <<adapter, op, packages, options, onProgress, progress, delivered,
                   nDelivered, child, nSpawned, nChunks, env, config, input>>

\* the lock files of one grammar a repository may hold
LockDocs(type) ==
    CASE type = "npm" -> { c \in NpmLocks : c.form = "garbage" \/ c.name = "" }
      [] type = "yarn" -> { c \in YarnLocks : Len(c) \in {1, 3} }
      [] type = "pnpm" -> { c \in PnpmLocks : Len(c) \in {2, 4} }

\* detectLockFileType: the fetch of one lock file settles. A text that is
\* found ends the detection and is parsed, a missing one leads to the next
\* file, and after the last file the result is null; then the two checkers
\* are started.
LockSettle ==
    /\ op = "analyzeRemoteRepo"
    /\ pc = "lock"
    /\ \E resp \in FileResponses(LockDocs(LockProbes[locals.probe].type)) :
         LET file == FetchFile(resp)
             type == LockProbes[locals.probe].type
             answered == [requests EXCEPT ![Len(requests)].response = resp]
         IN IF file.threw
            THEN /\ requests' = answered
                 /\ ret' = << >>
                 /\ outcome' = "rejected"
                 /\ pc' = "done"
                 /\ UNCHANGED locals
            ELSE IF ~file.value.empty
            THEN /\ requests' = answered \o CheckRequests(packagesForCheck(locals.packages))
                 /\ locals' = [locals EXCEPT
                                 !.lockFileType = type,
                                 !.dependencyTree =
                                     <<parseLockFile(file.value.doc[1], type).value>>]
                 /\ pc' = "checks"
                 /\ UNCHANGED <<ret, outcome>>
            ELSE IF locals.probe < Len(LockProbes)
            THEN /\ requests' = answered
                        \o << Request(FileUrl(locals.repoInfo[1],
                                              LockProbes[locals.probe + 1].path),
                                      "GET", << >>) >>
                 /\ locals' = [locals EXCEPT !.probe = @ + 1]
                 /\ UNCHANGED <<pc, ret, outcome>>
            ELSE /\ requests' = answered \o CheckRequests(packagesForCheck(locals.packages))
                 /\ locals' = [locals EXCEPT !.probe = 0]
                 /\ pc' = "checks"
                 /\ UNCHANGED <<ret, outcome>>
    /\ UNCHANGED <<adapter, op, packages, options, onProgress, progress, delivered,
                   nDelivered, child, nSpawned, nChunks, env, config, input>>

\* the answers to the requests of the two checkers in the sample analyses;
\* every registry lookup of one analysis gets the same answer
AnalysisOsvResponses ==
    { r \in OsvResponses :
        \/ r.kind \in {"networkError", "notOk"}
        \/ r.kind = "json" /\ r.data.form = "object" /\ Len(r.data.results) # 1 }

AnalysisUpdateResponses ==
    { r \in UpdateResponses :
        \/ r.kind = "networkError"
        \/ r.kind = "json" /\ r.data.form = "object" /\ Len(r.data.latest) > 0 }

\* the RemoteAnalysisResult both paths return
RemoteAnalysisResult(l, vulnerabilities, updates) ==
    [sourceType |-> l.source,
     repoInfo |-> l.repoInfo,
     packageMeta |-> l.packageMeta,
     packages |-> l.packages,
     dependencyTree |-> l.dependencyTree,
     vulnerabilities |-> vulnerabilities,
     updates |-> updates,
     lockFileType |-> l.lockFileType]

\* Promise.all over the two checkers settles and the analysis returns
ChecksSettle ==
    /\ op = "analyzeRemoteRepo"
    /\ pc = "checks"
    /\ \E osv \in AnalysisOsvResponses, lookup \in AnalysisUpdateResponses :
         LET pkgs == packagesForCheck(locals.packages)
             vulnerabilities == IF Len(pkgs) = 0 THEN << >>
                                ELSE Catch(OsvAttempt(pkgs, osv), << >>).value
             updates == [i \in 1..Len(pkgs) |-> LookupEntry(pkgs[i], lookup).value]
         IN /\ requests' = [i \in 1..Len(requests) |->
                              IF requests[i].response.kind # "pending" THEN requests[i]
                              ELSE [requests[i] EXCEPT
                                      !.response = IF requests[i].method = "POST"
                                                   THEN osv ELSE lookup]]
            /\ ret' = RemoteAnalysisResult(locals, vulnerabilities, updates)
            /\ outcome' = "resolved"
    /\ pc' = "done"
    /\ UNCHANGED <<adapter, op, packages, options, onProgress, progress, delivered,
                   nDelivered, child, nSpawned, nChunks, env, locals, config, input>>

----------------------------------------------------------------------------
(* web/lib/api: createSSEConnection *)

\* the reads of the response body that return a chunk in the sample exchanges
MaxReads == 3

\* const API_BASE = import.meta.env.VITE_API_URL || '/api'
API_BASE == "/api"

\* The text of the stream is a sequence of pieces: the prefix "data: ", a
\* JSON text ({done}, {error} and {progress} stand for objects with that
\* `type`, null for `null`), "junk" for text that is no JSON, and "\n".
JsonPieces == {"{done}", "{error}", "{progress}", "null"}

\* The callbacks one line invokes: none unless it starts with 'data: ' and
\* the rest parses; JSON.parse of no text or of several pieces throws, and so
\* does reading `type` of null, and the catch clause ignores both.
SSEDispatch(line) ==
    IF Len(line) = 0 \/ Head(line) # "data: " THEN << >>
    ELSE IF Len(Tail(line)) # 1 \/ Tail(line)[1] \notin JsonPieces THEN << >>
    ELSE CASE Tail(line)[1] = "{done}" -> <<"onDone">>
           [] Tail(line)[1] = "{error}" -> <<"onError">>
           [] Tail(line)[1] = "{progress}" -> <<"onMessage">>
           [] OTHER -> << >>

\* the chunks reader.read() may return
SSEChunks ==
    { <<"data: ", "{progress}", "\n">>,
      <<"data: ", "{done}", "\n">>,
      <<"data: ", "{error}", "\n">>,
      <<"data: ", "{done}">>,
      <<"data: ">>,
      <<"{progress}", "\n", "junk", "\n">>,
      <<"data: ", "null", "\n", "data: ", "junk", "\n">>,
      <<"data: ", "{done}", "\n", "data: ", "{error}", "\n">> }

\* The promise the hooks build around the connection: onDone resolves it,
\* onError rejects it, and a promise that is settled stays as it is.
RECURSIVE AfterCallbacks(_, _)
AfterCallbacks(o, calls) ==
    IF Len(calls) = 0 THEN o
    ELSE AfterCallbacks(IF o # "pending" THEN o
                        ELSE CASE Head(calls) = "onDone" -> "resolved"
                               [] Head(calls) = "onError" -> "rejected"
                               [] OTHER -> "pending",
                        Tail(calls))

SSEEndpoints == {"/packages/install", "/packages/uninstall", "/packages/update"}

\* createSSEConnection(endpoint, body, onMessage, onDone, onError) inside
\* new Promise((resolve, reject) => ...): the request is sent
SSECall(endpoint) ==
    /\ pc = "idle"
    /\ op' = "createSSEConnection"
    /\ input' = endpoint
    /\ requests' = << Request(<<API_BASE, endpoint>>, "POST", << >>) >>
    /\ locals' = [buffer |-> << >>, calls |-> << >>, reads |-> 0]
    /\ pc' = "sseFetch"
    /\ UNCHANGED <<adapter, packages, options, onProgress, progress, delivered,
                   nDelivered, child, nSpawned, nChunks, outcome, ret, env, config>>

\* fetch settles: a rejection reaches .catch, a response that is not ok or
\* has no body is reported through onError, any other response is read
SSEResponse ==
    /\ op = "createSSEConnection"
    /\ pc = "sseFetch"
    /\ \E kind \in {"networkError", "notOk", "noBody", "stream"} :
         /\ requests' = [requests EXCEPT ![1].response = Response(kind, NoData)]
         /\ IF kind = "stream"
            THEN /\ pc' = "sseRead"
                 /\ UNCHANGED <<locals, outcome>>
            ELSE /\ locals' = [locals EXCEPT !.calls = <<"onError">>]
                 /\ outcome' = AfterCallbacks(outcome, <<"onError">>)
                 /\ pc' = "done"
    /\ UNCHANGED <<adapter, op, packages, options, onProgress, progress, delivered,
                   nDelivered, child, nSpawned, nChunks, ret, env, config, input>>

\* reader.read() returns a chunk: every complete line of the buffer is
\* dispatched and the rest is kept
SSEChunk ==
    /\ op = "createSSEConnection"
    /\ pc = "sseRead"
    /\ locals.reads < MaxReads
    /\ \E chunk \in SSEChunks :
         LET lines == Split(locals.buffer \o chunk, <<"\n">>)
             invoked == Concat([i \in 1..(Len(lines) - 1) |-> SSEDispatch(lines[i])])
         IN /\ locals' = [buffer |-> lines[Len(lines)],
                          calls |-> locals.calls \o invoked,
                          reads |-> locals.reads + 1]
            /\ outcome' = AfterCallbacks(outcome, invoked)
    /\ UNCHANGED <<adapter, op, pc, packages, options, onProgress, progress, delivered,
                   nDelivered, child, nSpawned, nChunks, ret, env, config, input,
                   requests>>

\* reader.read() returns done: what is left in the buffer is dispatched
SSEClose ==
    /\ op = "createSSEConnection"
    /\ pc = "sseRead"
    /\ locals' = [locals EXCEPT !.buffer = << >>,
                                !.calls = @ \o SSEDispatch(locals.buffer)]
    /\ outcome' = AfterCallbacks(outcome, SSEDispatch(locals.buffer))
    /\ pc' = "done"
    /\ UNCHANGED <<adapter, op, packages, options, onProgress, progress, delivered,
                   nDelivered, child, nSpawned, nChunks, ret, env, config, input,
                   requests>>

\* reader.read() rejects: .catch calls onError
SSEReadFails ==
    /\ op = "createSSEConnection"
    /\ pc = "sseRead"
    /\ locals' = [locals EXCEPT !.calls = @ \o <<"onError">>]
    /\ outcome' = AfterCallbacks(outcome, <<"onError">>)
    /\ pc' = "done"
    /\ UNCHANGED <<adapter, op, packages, options, onProgress, progress, delivered,
                   nDelivered, child, nSpawned, nChunks, ret, env, config, input,
                   requests>>

----------------------------------------------------------------------------
(* Several operations in flight *)

\* the operations started in one run, and the chunks the child of each writes
MaxOperations == 2
MaxOpChunks == 1

\* the adapters the concurrent operations run on
ConcurrentAdapters == {"npm", "pnpm"}

\* One call in flight: its adapter and operation, where it stands, how it
\* settled, the chunks its child wrote, and what its sink was called with:
\* the records (by address) and the value last seen.
Operation(a, o) ==
    [adapter |-> a, op |-> o,
     pc |-> IF o = "auditFix" THEN "fixBefore" ELSE "await",
     outcome |-> "pending", nChunks |-> 0, received |-> {}, seen |-> << >>]

\* RecordOf for a record kept on the adapter instance: the record of the
\* first operation of the same adapter
RecordOfAdapter(ops, i) ==
    CHOOSE j \in 1..i :
        /\ ops[j].adapter = ops[i].adapter
        /\ \A k \in 1..(j - 1) : ops[k].adapter # ops[i].adapter

\* `const progress` of call i: the record the call and the listeners it
\* attached close over is the one the call allocated
RecordOf(ops, i) == i

\* a write of operation i to its record, then onProgress?.(progress)
WriteAndDeliver(l, i, rec) ==
    [l EXCEPT !.heap[RecordOf(l.ops, i)] = rec,
              !.ops[i].received = @ \cup {RecordOf(l.ops, i)},
              !.ops[i].seen = <<rec>>]

\* the record operation i reads
Own(l, i) == l.heap[RecordOf(l.ops, i)]

Concurrent == op = "concurrent" /\ pc = "inFlight"

NoOperations == [ops |-> << >>, heap |-> << >>]

\* a call of install, uninstall, update or auditFix, alone or while others
\* are in flight: the record is allocated and delivered
StartOperation(a, o) ==
    /\ \/ pc = "idle"
       \/ Concurrent /\ Len(locals.ops) < MaxOperations
    /\ LET l == IF pc = "idle" THEN NoOperations ELSE locals
           rec == NewProgress(a, o, <<NameLodash>>)
       IN locals' = WriteAndDeliver([ops |-> Append(l.ops, Operation(a, o)),
                                     heap |-> Append(l.heap, rec)],
                                    Len(l.ops) + 1, rec)
    /\ op' = "concurrent"
    /\ pc' = "inFlight"
    /\ UNCHANGED <<adapter, packages, options, onProgress, progress, delivered,
                   nDelivered, child, nSpawned, nChunks, outcome, ret, env, config,
                   input, requests>>

\* a 'data' event of the child of install i reaches its listener
DataOf(i, stream) ==
    /\ Concurrent
    /\ i \in 1..Len(locals.ops)
    /\ locals.ops[i].pc = "await"
    /\ Streams(locals.ops[i].op)
    /\ locals.ops[i].nChunks < MaxOpChunks
    /\ LET chunk == locals.ops[i].nChunks + 1
           rec == IF stream = "stdout"
                  THEN OnStdoutRecord(locals.ops[i].adapter, Own(locals, i), chunk)
                  ELSE OnStderrRecord(Own(locals, i), chunk)
       IN locals' = WriteAndDeliver([locals EXCEPT !.ops[i].nChunks = chunk], i, rec)
    /\ UNCHANGED <<adapter, op, pc, packages, options, onProgress, progress, delivered,
                   nDelivered, child, nSpawned, nChunks, outcome, ret, env, config,
                   input, requests>>

\* `await subprocess` of operation i returns: the final writes and delivery
CompleteOf(i) ==
    /\ Concurrent
    /\ i \in 1..Len(locals.ops)
    /\ locals.ops[i].pc = "await"
    /\ locals' = WriteAndDeliver([locals EXCEPT !.ops[i].pc = "done",
                                                !.ops[i].outcome = "resolved"],
                                 i, CompletedRecord(locals.ops[i].op, Own(locals, i)))
    /\ UNCHANGED <<adapter, op, pc, packages, options, onProgress, progress, delivered,
                   nDelivered, child, nSpawned, nChunks, outcome, ret, env, config,
                   input, requests>>

\* `await subprocess` of operation i throws: the call is rejected
FailOf(i) ==
    /\ Concurrent
    /\ i \in 1..Len(locals.ops)
    /\ locals.ops[i].pc = "await"
    /\ locals' = [locals EXCEPT !.ops[i].pc = "done", !.ops[i].outcome = "rejected"]
    /\ UNCHANGED <<adapter, op, pc, packages, options, onProgress, progress, delivered,
                   nDelivered, child, nSpawned, nChunks, outcome, ret, env, config,
                   input, requests>>

\* auditFix i passes a milestone or, after the re-scan, completes
FixStepOf(i) ==
    /\ Concurrent
    /\ i \in 1..Len(locals.ops)
    /\ locals.ops[i].pc \in {"fixBefore", "fixRun", "fixAfter"}
    /\ LET at == locals.ops[i].pc
           own == Own(locals, i)
       IN \E fixed \in 0..MaxVulns :
            locals' =
              CASE at = "fixBefore" ->
                     WriteAndDeliver([locals EXCEPT !.ops[i].pc = "fixRun"], i,
                         MilestoneRecord(own, ProgressFixRunning,
                                         FixRunningMessage(locals.ops[i].adapter)))
                [] at = "fixRun" ->
                     WriteAndDeliver([locals EXCEPT !.ops[i].pc = "fixAfter"], i,
                         MilestoneRecord(own, ProgressFixRescan, "Re-scanning..."))
                [] OTHER ->
                     WriteAndDeliver([locals EXCEPT !.ops[i].pc = "done",
                                                    !.ops[i].outcome = "resolved"], i,
                         FixCompletedRecord(own, fixed))
    /\ UNCHANGED <<adapter, op, pc, packages, options, onProgress, progress, delivered,
                   nDelivered, child, nSpawned, nChunks, outcome, ret, env, config,
                   input, requests>>

\* the fix command of auditFix i throws: the catch clause
FixFailOf(i) ==
    /\ Concurrent
    /\ i \in 1..Len(locals.ops)
    /\ locals.ops[i].pc = "fixRun"
    /\ locals' = WriteAndDeliver([locals EXCEPT !.ops[i].pc = "done",
                                                !.ops[i].outcome = "resolved"], i,
                                 FailedRecord(Own(locals, i), ErrorText))
    /\ UNCHANGED <<adapter, op, pc, packages, options, onProgress, progress, delivered,
                   nDelivered, child, nSpawned, nChunks, outcome, ret, env, config,
                   input, requests>>

\* the steps of the operations in flight
ConcurrentNext ==
    \/ \E a \in ConcurrentAdapters, o \in MutatingOps \cup {"auditFix"} :
         StartOperation(a, o)
    \/ \E i \in 1..MaxOperations : DataOf(i, "stdout")
    \/ \E i \in 1..MaxOperations : DataOf(i, "stderr")
    \/ \E i \in 1..MaxOperations : CompleteOf(i)
    \/ \E i \in 1..MaxOperations : FailOf(i)
    \/ \E i \in 1..MaxOperations : FixStepOf(i)
    \/ \E i \in 1..MaxOperations : FixFailOf(i)

----------------------------------------------------------------------------
\* the steps of the calls on a package-manager adapter
AdapterNext ==
    \/ \E a \in Adapters, pkgs \in PackageLists, opts \in OptionSets, sink \in Sinks :
         Begin(a, "install", pkgs, opts, sink)
    \/ \E a \in Adapters, pkgs \in PackageLists, sink \in Sinks :
         Begin(a, "uninstall", pkgs, [dev |-> FALSE, global |-> FALSE, registry |-> << >>], sink)
    \/ \E a \in Adapters, pkgs \in PackageLists, sink \in Sinks :
         Begin(a, "update", pkgs, [dev |-> FALSE, global |-> FALSE, registry |-> << >>], sink)
    \/ Spawn
    \/ OnData("stdout")
    \/ OnData("stderr")
    \/ OutputBuffered
    \/ ChildExit
    \/ Complete
    \/ Fail
    \/ \E a \in Adapters : DetectCall(a)
    \/ DetectWhich
    \/ ProbeExits
    \/ ProbeTimesOut
    \/ DetectReturn
    \/ \E a \in Adapters, o \in ReadOps : ReadCall(a, o)
    \/ ReadWhichNpm
    \/ ReadSettle
    \/ \E a \in Adapters, sink \in Sinks : FixCall(a, sink)
    \/ FixWhich
    \/ FixBefore
    \/ FixRun
    \/ FixAfter
    \/ FixCatch
    \/ \E a \in Adapters, url \in Registries : SetRegistryCall(a, url)
    \/ SetRegistrySettle
    \/ \E a \in Adapters : GetRegistryCall(a)
    \/ GetRegistrySettle

\* the steps of the calls on services/remote
RemoteNext ==
    \/ \E pkgs \in RemotePackageLists : CheckVulnerabilitiesCall(pkgs)
    \/ OsvSettle
    \/ \E pkgs \in RemotePackageLists : CheckUpdatesCall(pkgs)
    \/ LookupSettles
    \/ CheckUpdatesReturn
    \/ \E text \in InputTexts : ParseInputTypeCall(text)
    \/ \E url \in GitUrls : ParseGitUrlCall(url)
    \/ \E deps \in DependencyMaps, devDeps \in DependencyMaps :
         ExtractPackagesCall(deps, devDeps)
    \/ \E file \in LockFiles : ParseLockFileCall(file)
    \/ \E repoInfo \in RepoInfos, filePath \in FilePaths :
         FetchRepoFileCall(repoInfo, filePath)
    \/ FetchRepoFileSettle
    \/ \E text \in AnalysisInputs, branch \in Branches : AnalyzeCall(text, branch)
    \/ RegistrySettle
    \/ ManifestSettle
    \/ LockSettle
    \/ ChecksSettle

\* the steps of a connection of the web client
WebNext ==
    \/ \E endpoint \in SSEEndpoints : SSECall(endpoint)
    \/ SSEResponse
    \/ SSEChunk
    \/ SSEClose
    \/ SSEReadFails

Next == AdapterNext \/ RemoteNext \/ WebNext \/ ConcurrentNext

Spec == Init /\ [][Next]_vars

\* The adapters under the scheduling of the event loop: every continuation
\* that is ready runs, a lookup and a child that does not hang end, and an
\* armed timer fires.
FairSpec ==
    /\ Init
    /\ [][AdapterNext]_vars
    /\ WF_vars(DetectWhich)
    /\ WF_vars(ProbeExits)
    /\ WF_vars(ProbeTimesOut)
    /\ WF_vars(DetectReturn)
    /\ WF_vars(FixWhich)
    /\ WF_vars(FixBefore)
    /\ WF_vars(FixRun)
    /\ WF_vars(FixAfter)
    /\ WF_vars(FixCatch)

----------------------------------------------------------------------------
(* Properties *)

Record == progress[1]
Seen == delivered[1]

\* C1: in install, uninstall and update the progress values the sink receives
\* never decrease, and the value last received is 100 exactly when the status
\* last received is `completed`.
HundredIffCompleted ==
    (op \in MutatingOps /\ delivered # << >>)
        => (Seen.progress = ProgressDone <=> Seen.status = "completed")
DeliveredNeverDecreases ==
    [][(op' \in MutatingOps /\ delivered # << >> /\ delivered' # << >>)
          => delivered'[1].progress >= delivered[1].progress]_vars
ProgressMonotoneAndFinal == []HundredIffCompleted /\ DeliveredNeverDecreases

\* C1 witness: an install that resolved after its stdout listener ran into the cap
InstallCompletedAtCap ==
    /\ op = "install"
    /\ outcome = "resolved"
    /\ onProgress = "returns"
    /\ Seen.status = "completed"
    /\ Seen.progress = ProgressDone
    /\ Len(Seen.logs) = MaxChunks

\* a check at the head of the mutating operation throws on these arguments
ValidationFails ==
    \/ op \in {"install", "uninstall"} /\ ~validatePackageNames(packages)
    \/ op = "update" /\ Len(packages) > 0 /\ ~validatePackageNames(packages)
    \/ op = "install" /\ Len(options.registry) # 0 /\ ~validateUrl(options.registry)

\* C2: when a package name (or, for install, the registry URL) does not pass
\* validation the call is rejected, no child process is spawned, no record is
\* created and the sink is never called.
ValidationBeforeSpawn ==
    ValidationFails =>
        /\ outcome = "rejected"
        /\ nSpawned = 0
        /\ child = NoChild
        /\ nDelivered = 0
        /\ progress = << >>

\* C2 witness: an install with valid names and a registry URL that is refused
InstallRefusedForRegistry ==
    /\ op = "install"
    /\ onProgress = "returns"
    /\ validatePackageNames(packages)
    /\ options.registry = UrlInjection
    /\ outcome = "rejected"

ChildFailed == child.state \in {"exitN", "spawnError"}

\* C3: when the child of install, uninstall or update fails, the call does not
\* resolve, it is rejected once it settles, and the sink has seen neither
\* `completed` nor 100.
FailedChildRejects ==
    (op \in MutatingOps /\ ChildFailed) =>
        /\ outcome # "resolved"
        /\ (pc = "done" /\ outcome # "crashed") => outcome = "rejected"
        /\ Record.status = "running"
        /\ delivered # << >> =>
               (Seen.status # "completed" /\ Seen.progress # ProgressDone)

\* C3 witness: an update whose child exited non-zero and whose call was rejected
UpdateRejectedOnFailure ==
    /\ op = "update"
    /\ child.state = "exitN"
    /\ outcome = "rejected"
    /\ nDelivered = 1

\* C4: once the record's status is `completed` or `failed`, no field of it
\* changes and the sink is not shown another status.
TerminalRecordImmutable ==
    [][(progress # << >> /\ progress[1].status \in {"completed", "failed"})
          => /\ progress' = progress
             /\ delivered' # << >> => delivered'[1].status = progress[1].status]_vars

\* C5: every chunk the child of install, uninstall or update has written is in
\* `logs`, and the sink has seen it.
OutputStreamedIntoLogs ==
    (op \in MutatingOps /\ progress # << >> /\ outcome # "crashed") =>
        /\ Len(Record.logs) = nChunks
        /\ (onProgress # "absent" /\ nChunks > 0) => Len(Seen.logs) = nChunks

\* C6: whenever the record has been written the sink has been called with it
\* as it now is, and no child process is spawned before the first call.
SinkSeesEveryChange ==
    /\ (onProgress # "absent" /\ progress # << >>) => delivered = progress
    /\ (op \in MutatingOps \cup {"auditFix"} /\ onProgress # "absent" /\ nSpawned > 0)
           => nDelivered >= 1

\* C6 witness: an install in flight whose listeners have both run
InstallStreaming ==
    /\ op = "install"
    /\ onProgress = "returns"
    /\ pc = "await"
    /\ Len(Record.logs) = 3
    /\ Record.progress = ProgressStepDefault
    /\ delivered = progress

\* C7: detect never rejects; it reports available exactly when `which` found
\* the binary and the version probe succeeded, and otherwise returns the
\* empty version and path.
DetectNeverFails ==
    op = "detect" =>
        /\ outcome \in {"pending", "resolved"}
        /\ outcome = "resolved" =>
              /\ ret.type = adapter
              /\ ret.available <=> (env.which = "found" /\ env.probe = "ok")
              /\ ret.available => (ret.path = BinaryPath(adapter)
                                   /\ ret.version = Trim(env.stdout))
              /\ ~ret.available => ret = Unavailable(adapter)

\* C7 witness: the binary is there and its version probe failed
DetectProbeFailed ==
    /\ op = "detect"
    /\ outcome = "resolved"
    /\ env.which = "found"
    /\ env.probe = "failed"
    /\ ~ret.available

\* C8: every detect call returns, also when the probed binary never exits.
DetectEventuallyReturns == (op = "detect") ~> (op = "detect" /\ outcome = "resolved")

Run == env.run

\* the run of the read operation failed: the child could not be started, it
\* exited non-zero, or some of its output does not parse
ReadFailed ==
    \/ Run.spawn \in {"errorEvent", "throws"}
    \/ Run.spawn = "ok" /\ Run.exitCode # 0
    \/ Run.spawn = "ok" /\ Run.stdout.form = "garbage"
    \/ Run.spawn = "ok" /\ adapter = "yarn" /\ Run.stdout.form = "lines"
         /\ \E i \in 1..Len(Run.stdout.lines) : ~Run.stdout.lines[i].json

ReadAborted ==
    \/ Run.spawn \in {"errorEvent", "throws"}
    \/ Run.spawn = "ok" /\ op # "audit" /\ Run.exitCode # 0
    \/ Run.spawn = "ok" /\ Run.stdout.form = "garbage"
    \/ Run.spawn = "ok" /\ Run.stdout.form = "empty"

FixedIsClampedDifference ==
    (op = "auditFix" /\ outcome = "resolved" /\ locals.rescanned) =>
        /\ ret.fixed = Max(0, locals.beforeCount - locals.afterCount)
        /\ ret.fixed >= 0
        /\ locals.afterCount >= locals.beforeCount => ret.fixed = 0

\* C11: setRegistry(url) with an invalid URL is rejected, runs no command and
\* leaves the configuration alone; a setRegistry(url) that resolved has stored
\* url, and a getRegistry() that follows it returns url.
RegistryRoundTrip ==
    /\ (op = "setRegistry" /\ ~validateUrl(input)) =>
           (outcome = "rejected" /\ nSpawned = 0 /\ config = DefaultRegistry)
    /\ (op = "setRegistry" /\ outcome = "resolved") => config = input
    /\ (op = "getRegistry" /\ input # << >> /\ outcome = "resolved") => ret = input

Severities == {"critical", "high", "moderate", "low"}

\* C12: every VulnerabilityInfo an audit or checkVulnerabilities returns has
\* its severity among critical, high, moderate, low, and an upstream severity
\* that is missing or not one of these is reported as `moderate`.
SeverityNormalized ==
    /\ (op = "audit" /\ outcome = "resolved") =>
           \A i \in 1..Len(ret.vulnerabilities) :
               ret.vulnerabilities[i].severity \in Severities
    /\ (op = "checkVulnerabilities" /\ outcome = "resolved") =>
           /\ \A i \in 1..Len(ret) : ret[i].severity \in Severities
           /\ LET data == requests[1].response.data
              IN (Len(input) > 0 /\ Len(ret) = 1 /\ Len(data.results) = 1) =>
                    LET upstream == OsvSeverityOf(data.results[1].vulns[1])
                    IN toLowerCase(upstream) \notin
                           {<<"c","r","i","t","i","c","a","l">>, <<"h","i","g","h">>, <<"m","o","d","e","r","a","t","e">>, <<"l","o","w">>}
                       => ret[1].severity = "moderate"

\* C19: checkVulnerabilities with an empty list returns the empty list and
\* issues no request; a request to the vulnerability database is issued only
\* for a non-empty list.
NoRequestForEmptyList ==
    op = "checkVulnerabilities" =>
        /\ Len(input) = 0 =>
               (outcome = "resolved" /\ ret = << >> /\ Len(requests) = 0 /\ pc = "done")
        /\ Len(requests) > 0 =>
               (Len(input) > 0 /\ Len(requests) = 1 /\ requests[1].url = <<OSV_API>>
                /\ Len(requests[1].body) = Len(input))

\* C19 witness: checkVulnerabilities([]) has returned
EmptyListChecked ==
    /\ op = "checkVulnerabilities"
    /\ input = << >>
    /\ pc = "done"
    /\ ret = << >>

\* the registry lookup failed: network error, status not 2xx, or bad JSON
LookupFailed(resp) == resp.kind \in {"networkError", "notOk", "badJson"}

\* C20: checkUpdates resolves with one entry per package, in input order,
\* whatever lookups fail; a failed lookup reports hasUpdate = FALSE and the
\* current version as latest, and the entry of every other package is what
\* its own registry answer gives.
UpdatesFailureIsolated ==
    (op = "checkUpdates" /\ pc = "done") =>
        /\ outcome = "resolved"
        /\ Len(ret) = Len(input)
        /\ \A i \in 1..Len(input) :
             LET resp == requests[i].response
                 current == input[i].version
             IN /\ ret[i].name = input[i].name
                /\ ret[i].currentVersion = current
                /\ LookupFailed(resp) =>
                       (~ret[i].hasUpdate /\ ret[i].latestVersion = current)
                /\ (resp.kind = "json" /\ resp.data.form = "object"
                    /\ Len(resp.data.latest) > 0) =>
                       /\ ret[i].latestVersion = resp.data.latest
                       /\ ret[i].hasUpdate <=>
                              (resp.data.latest # current
                               /\ ~Includes(current, resp.data.latest))

\* C20 witness: the first of two lookups failed, the second found an update
OneLookupFailed ==
    /\ op = "checkUpdates"
    /\ pc = "done"
    /\ Len(input) = 2
    /\ requests[1].response.kind = "networkError"
    /\ requests[2].response.kind = "json"
    /\ ~ret[1].hasUpdate
    /\ ret[2].hasUpdate

\* the text is <scheme>://<domain>/package/<name> for the i-th known site
IsSiteUrlOf(t, i) ==
    LET domain == NPM_SITE_REGISTRY_MAP[i].domain
    IN \E scheme \in {<<"h","t","t","p",":","/","/">>, <<"h","t","t","p","s",":","/","/">>} :
         LET head == scheme \o domain \o <<"/","p","a","c","k","a","g","e","/">>
         IN StartsWith(t, head) /\ Len(t) > Len(head)

SiteNameOf(t) ==
    LET at == CHOOSE k \in 1..Len(t) : SubSeq(t, k, k + 8) = <<"/","p","a","c","k","a","g","e","/">>
    IN SubSeq(t, at + 9, Len(t))

\* C13: parseInputType returns one of the three types by the rules in order:
\* a URL <domain>/package/<name> of a known site is npm-site-url with value
\* <name> and that site's registry; any other text starting with http://,
\* https:// or git@ is git-url; any other text of the [@scope/]name grammar is
\* npm-package; anything else is git-url.
InputClassifiedInOrder ==
    op = "parseInputType" =>
        LET t == Trim(input)
            site == \E i \in 1..Len(NPM_SITE_REGISTRY_MAP) : IsSiteUrlOf(t, i)
            url == \/ StartsWith(t, <<"h","t","t","p",":","/","/">>)
                   \/ StartsWith(t, <<"h","t","t","p","s",":","/","/">>)
                   \/ StartsWith(t, <<"g","i","t","@">>)
        IN /\ ret.type \in {"npm-site-url", "git-url", "npm-package"}
           /\ site => /\ ret.type = "npm-site-url"
                      /\ ret.value = SiteNameOf(t)
                      /\ \E i \in 1..Len(NPM_SITE_REGISTRY_MAP) :
                           /\ IsSiteUrlOf(t, i)
                           /\ ret.registry = NPM_SITE_REGISTRY_MAP[i].registry
           /\ (~site /\ url) => (ret.type = "git-url" /\ ret.value = t)
           /\ (~site /\ ~url /\ PackageNameGrammar(t)) =>
                  (ret.type = "npm-package" /\ ret.value = t)
           /\ (~site /\ ~url /\ ~PackageNameGrammar(t)) =>
                  (ret.type = "git-url" /\ ret.value = t)

\* the URL is at the given host, in https, http or git@ form
HostIs(url, host) ==
    \/ StartsWith(url, <<"h","t","t","p","s",":","/","/">> \o host \o <<"/">>)
    \/ StartsWith(url, <<"h","t","t","p",":","/","/">> \o host \o <<"/">>)
    \/ StartsWith(url, <<"g","i","t","@">> \o host \o <<":">>)

\* C14: parseGitUrl throws exactly on the inputs that match none of the four
\* patterns; otherwise platform is github for every github.com URL and gitlab
\* for every gitlab.com URL, repo has no ".git" suffix, and branch is
\* undefined for the git@ form.
GitUrlParsed ==
    op = "parseGitUrl" =>
        /\ outcome = "rejected" <=>
               \A k \in 1..Len(GitPatterns) : ~GitMatch(input, k).matched
        /\ outcome = "resolved" =>
               /\ HostIs(input, <<"g","i","t","h","u","b",".","c","o","m">>) => ret.platform = "github"
               /\ HostIs(input, <<"g","i","t","l","a","b",".","c","o","m">>) => ret.platform = "gitlab"
               /\ ~EndsWith(ret.repo, DotGit)
               /\ StartsWith(input, <<"g","i","t","@">>) => ret.branch = << >>

\* the text without its leading run of range-operator characters
RECURSIVE WithoutOperatorRun(_)
WithoutOperatorRun(version) ==
    IF Len(version) > 0 /\ version[1] \in RangeOperators
    THEN WithoutOperatorRun(Tail(version))
    ELSE version

\* C15: extractPackages returns the dependencies with isDev = FALSE followed
\* by the devDependencies with isDev = TRUE, each with its declared version
\* less exactly the leading run of range-operator characters, so that no
\* returned version starts with one.
OperatorRunStripped ==
    op = "extractPackages" =>
        LET declared == input.dependencies \o input.devDependencies
        IN /\ Len(ret) = Len(declared)
           /\ \A i \in 1..Len(ret) :
                /\ ret[i].name = declared[i].name
                /\ ret[i].isDev <=> i > Len(input.dependencies)
                /\ ret[i].version = WithoutOperatorRun(declared[i].version)
                /\ Len(ret[i].version) > 0 => ret[i].version[1] \notin RangeOperators

\* the number of places where the text w occurs in s
Occurrences(s, w) ==
    Cardinality({ i \in 1..(Len(s) - Len(w) + 1) : SubSeq(s, i, i + Len(w) - 1) = w })

\* the text after the first occurrence of w in s
AfterFirst(s, w) == SubSeq(s, IndexOfText(s, w) + Len(w), Len(s))

\* parseLockFile has read an npm lock whose `packages` map is not empty and
\* holds an object under every path
NpmFlatLockParsed ==
    /\ op = "parseLockFile" /\ pc = "done"
    /\ input.type = "npm"
    /\ input.content.form = "object"
    /\ Len(input.content.packages) > 0
    /\ \A i \in 1..Len(input.content.packages) : input.content.packages[i].form = "object"

\* C16 as stated: with a flat package-path map a path gives a child of the
\* root if and only if it holds exactly one `node_modules/`, and every child
\* has no children.
ChildIffOneNodeModules ==
    NpmFlatLockParsed =>
        LET paths == JsonObject(input.content.packages)
        IN /\ \A i \in 1..Len(paths) :
                Occurrences(paths[i].key, NodeModules) = 1 <=>
                    \E c \in 1..Len(ret.children) :
                        ret.children[c].name = AfterFirst(paths[i].key, NodeModules)
           /\ \A c \in 1..Len(ret.children) : ret.children[c].children = << >>

\* C16: with a flat package-path map the children of the root are, in the
\* order of the map, the paths that start with `node_modules/` and hold no
\* other `node_modules/`, each named by the rest of its path; the root path,
\* workspace paths, paths under a workspace and nested paths give no child,
\* and every child has no children.
ChildIffTopLevelPath ==
    NpmFlatLockParsed =>
        LET paths == JsonObject(input.content.packages)
            top == { i \in 1..Len(paths) :
                       /\ StartsWith(paths[i].key, NodeModules)
                       /\ Occurrences(paths[i].key, NodeModules) = 1 }
        IN /\ outcome = "resolved"
           /\ Len(ret.children) = Cardinality(top)
           /\ \A i \in top :
                LET c == Cardinality({ j \in top : j <= i })
                IN /\ ret.children[c].name = AfterFirst(paths[i].key, NodeModules)
                   /\ ret.children[c].children = << >>

\* C16 witness: a lock with a top-level path, a nested path, a workspace and
\* a path under the workspace has been parsed and gave children
NpmLockWithNestedPathsParsed ==
    /\ NpmFlatLockParsed
    /\ Len(ret.children) > 0
    /\ \E i \in 1..Len(input.content.packages) : input.content.packages[i].key = PathNested
    /\ \E i \in 1..Len(input.content.packages) :
           input.content.packages[i].key = PathWorkspaceDep
    /\ \E i \in 1..Len(input.content.packages) : input.content.packages[i].key = << >>

\* the entries of a lock file that name a child of the root, one for each time
\* the text of the file has it, in the order of the text
WrittenEntries(file) ==
    CASE file.type = "npm" ->
           IF file.content.form # "object" THEN << >>
           ELSE IF Len(file.content.packages) > 0
           THEN Concat([i \in 1..Len(file.content.packages) |->
                    NpmLockChild(file.content.packages[i].key, file.content.packages[i])])
           ELSE Concat([i \in 1..Len(file.content.dependencies) |->
                    NpmDepChild(file.content.dependencies[i].key,
                                file.content.dependencies[i])])
      [] file.type = "yarn" -> YarnMatches(file.content)
      [] file.type = "pnpm" -> PnpmScan(file.content, 1, FALSE)

\* C17: for each of the three lock grammars the children parseLockFile
\* returns have pairwise distinct names, and a name the input has several
\* times is kept with the version of its first occurrence.
FirstOccurrenceWins ==
    (op = "parseLockFile" /\ pc = "done" /\ input.type \in LockFileTypes) =>
        /\ \A c, e \in 1..Len(ret.children) :
               ret.children[c].name = ret.children[e].name => c = e
        /\ \A c \in 1..Len(ret.children) :
               LET written == WrittenEntries(input)
                   first == CHOOSE i \in 1..Len(written) :
                                /\ written[i].name = ret.children[c].name
                                /\ \A j \in 1..(i - 1) :
                                       written[j].name # ret.children[c].name
               IN ret.children[c].version = written[first].version

\* an npm lock that is not JSON, is `null`, or holds `null` where the parser
\* reads an entry's version
NpmLockMalformed(lock) ==
    \/ lock.form # "object"
    \/ /\ Len(lock.packages) > 0
       /\ \E i \in 1..Len(lock.packages) :
            /\ lock.packages[i].form = "null"
            /\ StartsWith(lock.packages[i].key, NodeModules)
            /\ Occurrences(lock.packages[i].key, NodeModules) = 1
    \/ /\ Len(lock.packages) = 0
       /\ \E i \in 1..Len(lock.dependencies) : lock.dependencies[i].form = "null"

\* C18: parseLockFile never throws, for any content and type: it returns a
\* node whose children have no children; for a type outside the three, and
\* for an npm lock that is malformed as a whole or in one entry, the node is
\* root@0.0.0 with no children; for yarn and pnpm the node is root@0.0.0 and
\* holds every entry that was read, whatever malformed text stands between.
ParseLockFileNeverThrows ==
    (op = "parseLockFile" /\ pc = "done") =>
        /\ outcome = "resolved"
        /\ \A c \in 1..Len(ret.children) : ret.children[c].children = << >>
        /\ input.type \notin LockFileTypes => ret = EmptyRoot
        /\ (input.type = "npm" /\ NpmLockMalformed(input.content)) => ret = EmptyRoot
        /\ input.type \in {"yarn", "pnpm"} =>
               /\ ret.name = "root" /\ ret.version = "0.0.0"
               /\ \A i \in 1..Len(WrittenEntries(input)) :
                      \E c \in 1..Len(ret.children) :
                          ret.children[c].name = WrittenEntries(input)[i].name

\* C18 witness: an npm lock with a `null` entry after a sound one has been
\* parsed
NpmLockWithNullEntryParsed ==
    /\ op = "parseLockFile" /\ pc = "done"
    /\ input.type = "npm" /\ input.content.form = "object"
    /\ Len(input.content.packages) > 1
    /\ input.content.packages[1].form = "object"
    /\ IsRootChild(input.content.packages[1].key)
    /\ \E i \in 2..Len(input.content.packages) : input.content.packages[i].form = "null"
    /\ ret = EmptyRoot

\* C22: fetchRepoFile never throws, on either platform: a response that is
\* not a success, a network failure and a failure while the body is read all
\* give null.
FetchRepoFileNeverThrows ==
    (op = "fetchRepoFile" /\ pc = "done") =>
        /\ outcome = "resolved"
        /\ requests[1].response.kind \in {"networkError", "notOk", "bodyError"} =>
               ret.isNull

\* the input of the analysis is a package name or a registry site URL
NpmInput == parseInputType(input.input).type \in {"npm-package", "npm-site-url"}

\* the answer to the first request gave no text: the fetch failed, the status
\* was not a success, the body could not be read, or the body was empty
NoManifest ==
    /\ requests[1].response.kind # "pending"
    /\ requests[1].response.kind = "text" => requests[1].response.data.empty

\* C21: an analysis of a package name or a registry site URL that returns has
\* sourceType 'npm' and a packageMeta, and it returns whenever the registry
\* answers with a document; an analysis of a repository URL whose manifest
\* cannot be fetched is rejected, and then the manifest request is the only
\* request made: no lock file is asked for and no checker is called.
ManifestMissingIsAnError ==
    (op = "analyzeRemoteRepo" /\ pc = "done") =>
        /\ (NpmInput /\ outcome = "resolved") =>
               /\ ret.sourceType = "npm"
               /\ Len(ret.packageMeta) = 1
        /\ (NpmInput /\ requests[1].response.kind = "json"
                /\ requests[1].response.data[1].form = "object") => outcome = "resolved"
        /\ (~NpmInput /\ Len(requests) > 0 /\ NoManifest) =>
               /\ outcome = "rejected"
               /\ Len(requests) = 1
               /\ requests[1].url[6] = "package.json"

\* C21 witness: the manifest of a repository was answered with a status that
\* is not a success, and the analysis is over
ManifestNotFound ==
    /\ op = "analyzeRemoteRepo" /\ pc = "done"
    /\ ~NpmInput
    /\ Len(requests) = 1
    /\ requests[1].response.kind = "notOk"
    /\ outcome = "rejected"

\* the requests of the analysis that ask for a lock file, in the order sent
IsLockRequest(r) ==
    Len(r.url) = 8 /\ r.url[6] \in {"pnpm-lock.yaml", "yarn.lock", "package-lock.json"}

LockRequests == SelectSeq(requests, IsLockRequest)

\* the request was answered with a text that is not empty
Found(r) == r.response.kind = "text" /\ ~r.response.data.empty

\* the lock type a file name stands for
TypeOfLock(path) ==
    CASE path = "pnpm-lock.yaml" -> "pnpm"
      [] path = "yarn.lock" -> "yarn"
      [] path = "package-lock.json" -> "npm"

\* the lock files are asked for one after another in the order `order`, a
\* file is asked for only after every file before it was answered and not
\* found, and the analysis reports the type of the file found, or none after
\* all were asked for in vain
ProbedInOrder(order) ==
    (op = "analyzeRemoteRepo" /\ locals.source = "git") =>
        /\ Len(LockRequests) <= Len(order)
        /\ \A i \in 1..Len(LockRequests) :
             /\ LockRequests[i].url[6] = order[i]
             /\ i < Len(LockRequests) =>
                    /\ LockRequests[i].response.kind # "pending"
                    /\ ~Found(LockRequests[i])
        /\ (pc = "done" /\ outcome = "resolved") =>
               /\ Len(LockRequests) > 0
               /\ IF Found(LockRequests[Len(LockRequests)])
                  THEN ret.lockFileType =
                           TypeOfLock(LockRequests[Len(LockRequests)].url[6])
                  ELSE ret.lockFileType = "" /\ Len(LockRequests) = Len(order)

\* C23: the lock files are probed one after another with package-lock.json
\* first, then yarn.lock, then pnpm-lock.yaml; the first file found ends the
\* probing, no file after it is fetched, and its type is the lockFileType.
PackageLockProbedFirst ==
    ProbedInOrder(<<"package-lock.json", "yarn.lock", "pnpm-lock.yaml">>)

\* what detectLockFileType does: the same with the order pnpm-lock.yaml,
\* yarn.lock, package-lock.json
PnpmLockProbedFirst ==
    ProbedInOrder(<<"pnpm-lock.yaml", "yarn.lock", "package-lock.json">>)

----------------------------------------------------------------------------
\* the requests of an analysis that its two checkers sent: all but the fetch
\* from the registry (npm) or the fetches of repository files (git)
CheckerRequests ==
    IF locals.source = "npm" THEN Tail(requests)
    ELSE SelectSeq(requests, LAMBDA r : Len(r.url) # 8)

\* the first `n` elements of a list, or all of it when it is shorter
FirstN(s, n) == SubSeq(s, 1, Min(n, Len(s)))

\* the dependencies come before the devDependencies
DepsBeforeDevDeps(pkgs) ==
    \A i, j \in 1..Len(pkgs) : (pkgs[i].isDev /\ ~pkgs[j].isDev) => j < i

\* the manifest the analysis read: the latest version of the registry
\* document, or the package.json of the repository
DeclaredOf(r) ==
    IF locals.source = "npm"
    THEN [dependencies |-> IF r.response.data[1].hasLatest
                           THEN r.response.data[1].dependencies ELSE << >>,
          devDependencies |-> IF r.response.data[1].hasLatest
                              THEN r.response.data[1].devDependencies ELSE << >>]
    ELSE [dependencies |-> IF r.response.data.doc[1].form = "object"
                           THEN r.response.data.doc[1].dependencies ELSE << >>,
          devDependencies |-> IF r.response.data.doc[1].form = "object"
                              THEN r.response.data.doc[1].devDependencies ELSE << >>]

\* C26: on both paths the vulnerability checker and the update checker get
\* the same list, the first 50 extracted packages with the dependencies
\* before the devDependencies; `updates` has min(50, |packages|) entries and
\* the returned `packages` holds every declared package.
CheckersGetFirstFifty ==
    (op = "analyzeRemoteRepo" /\ pc \in {"checks", "done"}
        /\ (pc = "done" => outcome = "resolved")) =>
        LET checked == FirstN(locals.packages, 50)
            sent == CheckerRequests
            lookups == IF Len(checked) = 0 THEN sent ELSE Tail(sent)
        IN /\ DepsBeforeDevDeps(locals.packages)
           /\ Len(locals.packages) = Len(DeclaredOf(requests[1]).dependencies)
                                     + Len(DeclaredOf(requests[1]).devDependencies)
           /\ Len(checked) > 0 =>
                  /\ sent[1].method = "POST"
                  /\ Len(sent[1].body) = Len(checked)
                  /\ \A i \in 1..Len(checked) :
                       /\ sent[1].body[i].package.name = checked[i].name
                       /\ sent[1].body[i].version = checked[i].version
           /\ Len(lookups) = Len(checked)
           /\ \A i \in 1..Len(checked) :
                  lookups[i].url = <<NPM_REGISTRY, "/", checked[i].name>>
           /\ pc = "done" =>
                  /\ ret.packages = locals.packages
                  /\ Len(ret.updates) = Min(50, Len(ret.packages))
                  /\ \A i \in 1..Len(ret.updates) : ret.updates[i].name = checked[i].name

\* C26 witness: a repository that declares 49 dependencies and 2
\* devDependencies was analysed: 50 packages were checked, the last of them a
\* devDependency, and all 51 are returned
FiftyOneDeclared ==
    /\ op = "analyzeRemoteRepo" /\ pc = "done" /\ outcome = "resolved"
    /\ ret.sourceType = "git"
    /\ Len(ret.packages) = 51
    /\ ret.packages[50].isDev
    /\ Len(ret.updates) = 50

----------------------------------------------------------------------------
\* the packages of a list that are not devDependencies
NonDev(pkgs) == SelectSeq(pkgs, LAMBDA p : ~p.isDev)

\* C29: the result of an analysis has the shape of its sourceType. A git
\* result has repoInfo and no packageMeta, and its lockFileType is defined
\* exactly when its dependencyTree is not null; an npm result has packageMeta,
\* no repoInfo, no lockFileType, and a tree of one level whose children are
\* exactly the packages that are not devDependencies.
ResultShapeFollowsSource ==
    (op = "analyzeRemoteRepo" /\ pc = "done" /\ outcome = "resolved") =>
        /\ ret.sourceType \in {"git", "npm"}
        /\ ret.sourceType = "git" =>
              /\ Len(ret.repoInfo) = 1
              /\ Len(ret.packageMeta) = 0
              /\ (ret.lockFileType # "") <=> (Len(ret.dependencyTree) = 1)
        /\ ret.sourceType = "npm" =>
              /\ Len(ret.packageMeta) = 1
              /\ Len(ret.repoInfo) = 0
              /\ ret.lockFileType = ""
              /\ Len(ret.dependencyTree) = 1
              /\ ret.dependencyTree[1].name = ret.packageMeta[1].name
              /\ ret.dependencyTree[1].version = ret.packageMeta[1].version
              /\ Len(ret.dependencyTree[1].children) = Len(NonDev(ret.packages))
              /\ \A i \in 1..Len(NonDev(ret.packages)) :
                    /\ ret.dependencyTree[1].children[i].name = NonDev(ret.packages)[i].name
                    /\ ret.dependencyTree[1].children[i].version
                           = NonDev(ret.packages)[i].version
                    /\ ret.dependencyTree[1].children[i].children = << >>

\* C29 witness: the analysis of a package that declares devDependencies
\* returned; its tree has fewer children than it has packages
NpmPackageWithDevAnalysed ==
    /\ op = "analyzeRemoteRepo" /\ pc = "done" /\ outcome = "resolved"
    /\ ret.sourceType = "npm"
    /\ Len(ret.packages) = 3
    /\ Len(ret.dependencyTree[1].children) = 2

----------------------------------------------------------------------------
\* the aggregate counts the payload of the audit carries: the record under
\* metadata.vulnerabilities, or the counts of the last 'auditSummary' line
RECURSIVE LastSummaryCounts(_, _)
LastSummaryCounts(lines, counts) ==
    IF Len(lines) = 0 THEN counts
    ELSE LastSummaryCounts(Tail(lines),
             IF Head(lines).json /\ Head(lines).type = "auditSummary"
                    /\ Len(Head(lines).counts) > 0
             THEN Head(lines).counts ELSE counts)

PayloadCounts(doc) ==
    IF doc.form = "lines" THEN LastSummaryCounts(doc.lines, << >>)
    ELSE doc.metadata

\* C25: in every adapter's audit the summary reproduces the aggregate counts
\* of the payload when it carries them, and without them summary.total is
\* the number of vulnerabilities returned.
SummaryPreservedOrDerived ==
    (op = "audit" /\ pc = "done" /\ Run.spawn = "ok"
        /\ Run.stdout.form \in {"object", "lines"}) =>
        IF Len(PayloadCounts(Run.stdout)) > 0
        THEN ret.summary = PayloadCounts(Run.stdout)[1]
        ELSE ret.summary.total = Len(ret.vulnerabilities)

----------------------------------------------------------------------------
\* C27: in every adapter, install, uninstall and update never mark their
\* record failed; once the child has failed and the call has settled, the
\* record and the last record the sink received are still running with no
\* completedAt, and the failure shows only in the rejection of the call.
FailureLeavesRecordRunning ==
    (op \in MutatingOps /\ adapter \in Adapters) =>
        /\ progress # << >> => Record.status # "failed"
        /\ \A i \in 1..Len(delivered) : delivered[i].status # "failed"
        /\ (ChildFailed /\ pc = "done" /\ outcome # "crashed") =>
              /\ outcome = "rejected"
              /\ Record.status = "running"
              /\ ~Record.completedAt
              /\ delivered # << >> =>
                    (Seen.status = "running" /\ ~Seen.completedAt)

\* C27 witness: a yarn uninstall whose child could not be run was rejected
\* after its sink had received the record once
YarnUninstallFailed ==
    /\ adapter = "yarn"
    /\ op = "uninstall"
    /\ child.state \in {"exitN", "spawnError"}
    /\ pc = "done"
    /\ outcome = "rejected"
    /\ nDelivered = 1
    /\ Seen.status = "running"

----------------------------------------------------------------------------
\* an auditFix whose sink, if it has one, returns from every call
FixWithQuietSink == op = "auditFix" /\ onProgress # "mayThrow"

\* the terminal state of an auditFix: completed at 100 after the re-scan, or
\* failed below 100 with nothing fixed and nothing remaining
FixEndedTerminal ==
    /\ outcome = "resolved"
    /\ onProgress = "returns" => Seen = Record
    /\ Record.status \in {"completed", "failed"}
    /\ Record.status = "completed" <=> locals.rescanned
    /\ Record.status = "completed" =>
          (Record.progress = ProgressDone /\ Record.completedAt)
    /\ Record.status = "failed" =>
          /\ Record.progress < ProgressDone
          /\ ret.fixed = 0
          /\ ret.remaining = NoVulnerabilities
    /\ (adapter = "bun" /\ env.which = "missing") => Record.status = "failed"

----------------------------------------------------------------------------
\* the terminal callbacks among the callbacks invoked
Terminals(calls) == SelectSeq(calls, LAMBDA c : c \in {"onDone", "onError"})

\* C30: in every createSSEConnection call, once the exchange has ended
\* exactly one of onDone and onError has been invoked, exactly once, so the
\* promise built on it is settled; and onMessage is never invoked after
\* onDone or onError.
ExactlyOneTerminalCallback ==
    (op = "createSSEConnection") =>
        /\ pc = "done" =>
              /\ Len(Terminals(locals.calls)) = 1
              /\ outcome \in {"resolved", "rejected"}
        /\ \A i, j \in 1..Len(locals.calls) :
              (i < j /\ locals.calls[i] \in {"onDone", "onError"})
                  => locals.calls[j] # "onMessage"

----------------------------------------------------------------------------
\* the operations in flight and their records
Ops == locals.ops
Heap == locals.heap

\* the operations that differ between this state and the next
Moved == { i \in 1..Len(Ops) : Ops'[i] # Ops[i] }

\* C24: with several install, uninstall, update and auditFix operations in
\* flight, on the same adapter or on different ones, each operation has its
\* own record; a step of one operation writes no record but its own, and the
\* sink of an operation is only ever called with the record of that operation.
OneWriterPerRecord ==
    /\ [](Concurrent =>
            /\ Len(Heap) = Len(Ops)
            /\ \A i \in 1..Len(Ops) :
                  /\ Ops[i].received = {i}
                  /\ Ops[i].seen = <<Heap[i]>>
                  /\ Heap[i].type = (IF Ops[i].op = "auditFix" THEN "audit" ELSE Ops[i].op)
                  /\ Len(Heap[i].logs) = Ops[i].nChunks)
    /\ [][(Concurrent /\ Concurrent') =>
            /\ Cardinality(Moved) <= 1
            /\ \A j \in 1..Len(Heap) : Heap'[j] # Heap[j] => j \in Moved]_vars

\* C24 witness: two installs on the same adapter; the first has received a
\* chunk and completed while the second is still running with no output
TwoInstallsOnOneAdapter ==
    /\ Concurrent
    /\ Len(Ops) = 2
    /\ Ops[1].adapter = Ops[2].adapter
    /\ Ops[1].op = "install" /\ Ops[2].op = "install"
    /\ Ops[1].nChunks = 1 /\ Heap[1].status = "completed"
    /\ Ops[2].pc = "await" /\ Heap[2].status = "running" /\ Heap[2].logs = << >>

====
